---- MODULE Spec2Model ----
(***************************************************************************)
(* Orbit Sentinel backend: the Space-Track gateway (SpaceTrackAuth), the   *)
(* TLE parser and epoch decoder, the TLE cache and get_active_satellites   *)
(* (SatelliteService), the risk functions (CollisionDetectionService) and  *)
(* the batch risk pass (SatelliteService._assess_collision_risks) and the  *)
(* conjunction prediction (predict_conjunction_events).  Each component    *)
(* has its own specification; all share the variables.  SpecSetup is the   *)
(* gateway with login() and test_connection called directly as well,       *)
(* SpecBusy the aggregator on a gateway that has served requests before,   *)
(* SpecPassFair the risk pass on an event loop that keeps running.         *)
(*                                                                         *)
(* Time is a discrete clock `now`; every duration of the code is counted   *)
(* in ticks of it.  An Optional[datetime] is a sequence: <<>> is None and  *)
(* <<t>> is the instant t.  A coroutine runs atomically between two of its *)
(* awaits (asyncio, one event loop), so an action is one such stretch.     *)
(***************************************************************************)
EXTENDS Integers, Sequences, FiniteSets, TLC

\* ------------------------------------------------------------------ bounds
\* concurrent callers of query_tle_data on the one shared gateway
NumCalls == 2
\* the clock stops here
MaxTime == 3
\* chunks of lines a catalog text is put together from
MaxChunks == 4
\* largest limit handed to _parse_tle_data
MaxLimit == 3
\* largest day-of-year field handed to _parse_tle_epoch
MaxDay == 366
\* the limits that get_active_satellites is asked for are 1..NumKeys
NumKeys == 2
\* largest number of nearby objects handed to the probability model
MaxNearby == 17
\* largest batch handed to the risk pass
MaxBatch == 6
\* largest hours_ahead handed to predict_conjunction_events
MaxHours == 3

\* ------------------------------------------- configuration (SpaceTrackConfig)
\* SPACE_TRACK_RATE_LIMIT_PER_MINUTE / _PER_HOUR as configured for the model
RateLimitPerMinute == 2
RateLimitPerHour == 3
\* timedelta(minutes=1), timedelta(hours=1), session_timeout_minutes, in ticks
MinuteLen == 2
HourLen == 3
SessionTimeout == 2
\* SatelliteService._cache_duration, in ticks
CacheDuration == 2

\* CollisionDetectionService.risk_thresholds, in units of 0.0001 km
ThresholdCritical == 50000
ThresholdHigh == 250000
ThresholdMedium == 1000000
ThresholdLow == 5000000
\* asyncio.Semaphore(5)
MaxConcurrent == 5

Calls == 1..NumCalls

VARIABLES
    now,                      \* datetime.now()
    configured,               \* config.username and config.password are set
    session_cookies,          \* SpaceTrackAuth.session_cookies (set of names)
    session_expires,          \* SpaceTrackAuth.session_expires
    request_count_hour,
    request_count_minute,
    rate_limit_reset_hour,
    rate_limit_reset_minute,
    pc,                       \* per caller: "idle" (no call yet), "login" and
                              \* "get" (awaiting the answer), "done" (returned);
                              \* "login_only" and "tc_login" await the answer
                              \* to the POST of a login() called by itself
                              \* and by test_connection
    result,                   \* per caller: "-", or what its last call returned
    cause,                    \* per call: why the call failed (history)
    posts,                    \* per call in flight: login POSTs it has sent
    gets,                     \* per call in flight: catalog GETs it has sent
    okInWindow,               \* catalog GETs answered since the minute
                              \* window was last rolled (history)
    tle_text,                 \* _parse_tle_data: its text, a sequence of chars
    limit,                    \* _parse_tle_data: its limit
    lines,                    \* _parse_tle_data: tle_text.strip().split('\n')
    idx,                      \* _parse_tle_data: the loop's i
    satellites,               \* _parse_tle_data: the records so far
    _tle_cache,               \* SatelliteService._tle_cache: per key <<>> (no
                              \* entry) or <<[data, timestamp]>>
    req_pc,                   \* per get_active_satellites call: "idle",
                              \* "fetch" (in _fetch_tle_data), "weather"
                              \* (has its satellites), "done"
    req_limit,                \* per call: its limit
    req_satellites,           \* per call: its `satellites`
    response,                 \* per call: NoResponse, None or the response
    ppc,                      \* _parse_tle_data: "call", "loop", "returned"
    encoded,                  \* the year, day and tenth of a day that
                              \* epoch_str was written from, <<>> if none
    epoch_str,                \* _parse_tle_epoch: its argument
    epoch,                    \* _parse_tle_epoch: <<>>, or <<what it returned>>
    epc,                      \* _parse_tle_epoch: "call", "returned"
    closest_distance,         \* risk engine: argument, in 0.0001 km
    nearby_count,             \* risk engine: argument
    object_type,              \* risk engine: argument
    risk_level,               \* <<>>, or <<what _calculate_risk_level
                              \* returned>>
    collision_probability,    \* <<>>, or <<what
                              \* _calculate_collision_probability returned>>,
                              \* in 0.0001 percent
    batch,                    \* _assess_collision_risks: its `satellites`
    failing,                  \* the satellites of the batch whose assessment
                              \* raises inside assess_collision_risk
    task,                     \* per satellite, assess_single_satellite:
                              \* "pending", "running" (holds the semaphore,
                              \* awaits its assessment), "done"
    semaphore,                \* the value of the asyncio.Semaphore
    risk,                     \* per satellite: satellite.risk, <<>> is None
    finished,                 \* assessments completed so far
    pass_pc,                  \* "gather", "returned" (gather is over),
                              \* "listed" (find_high_risk_satellites ran),
                              \* "skipped" (there is no pass) and
                              \* "listed_unrated" after it
    high_risk_ids,            \* what find_high_risk_satellites returned
    hours_ahead,              \* predict_conjunction_events: its argument
    sample_distance,          \* per offset in hours from current_time: what
                              \* calculate_distance_between_satellites gives
                              \* for the pair then, <<>> is None
    current_time,             \* predict_conjunction_events: current_time
    hour,                     \* predict_conjunction_events: the loop's hour
    events,                   \* predict_conjunction_events: events
    pred_pc                   \* predict_conjunction_events: "call", "loop",
                              \* "returned"

gwVars == <<now, configured, session_cookies, session_expires,
            request_count_hour, request_count_minute,
            rate_limit_reset_hour, rate_limit_reset_minute>>
callVars == <<pc, result, cause, posts, gets, okInWindow>>
parserVars == <<tle_text, limit, lines, idx, satellites, ppc>>
epochVars == <<encoded, epoch_str, epoch, epc>>
serviceVars == <<_tle_cache, req_pc, req_limit, req_satellites, response>>
\* what the gateway and the aggregator do not touch, what the parser does
\* not touch, what _parse_tle_epoch does not touch
engineVars == <<closest_distance, nearby_count, object_type, risk_level,
                collision_probability>>
passVars == <<batch, failing, task, semaphore, risk, finished, pass_pc,
              high_risk_ids>>
predictVars == <<hours_ahead, sample_distance, current_time, hour, events,
                 pred_pc>>
offlineVars == <<parserVars, epochVars, engineVars, passVars, predictVars>>
onlineVars == <<gwVars, callVars, serviceVars>>
nonParserVars == <<onlineVars, epochVars, engineVars, passVars, predictVars>>
nonEpochVars == <<onlineVars, parserVars, engineVars, passVars, predictVars>>
nonEngineVars == <<onlineVars, parserVars, epochVars, passVars, predictVars>>
nonPassVars == <<onlineVars, parserVars, epochVars, engineVars, predictVars>>
nonPredictVars == <<onlineVars, parserVars, epochVars, engineVars, passVars>>
vars == <<gwVars, callVars, serviceVars, parserVars, epochVars, engineVars,
          passVars, predictVars>>

\* ---------------------------------------------------------------- gateway

\* _check_credentials: username and password are both set
_check_credentials(conf) == conf

\* _is_session_valid at time t
_is_session_valid(cookies, expires, t) ==
    IF cookies = {} THEN FALSE
    ELSE IF expires = <<>> THEN FALSE
    ELSE t < expires[1]

\* _check_rate_limits with > where the code has >= (one request too many)
_check_rate_limits_strict(ch, cm, rh, rm, t) ==
    LET rollH == rh = <<>> \/ t >= rh[1]
        rollM == rm = <<>> \/ t >= rm[1]
        ch2 == IF rollH THEN 0 ELSE ch
        rh2 == IF rollH THEN <<t + HourLen>> ELSE rh
        cm2 == IF rollM THEN 0 ELSE cm
        rm2 == IF rollM THEN <<t + MinuteLen>> ELSE rm
    IN  [ok |-> IF ch2 > RateLimitPerHour THEN FALSE
                ELSE IF cm2 > RateLimitPerMinute THEN FALSE
                ELSE TRUE,
         count_hour |-> ch2, reset_hour |-> rh2,
         count_minute |-> cm2, reset_minute |-> rm2]

\* _check_rate_limits: the counters and reset times it leaves, and its result
_check_rate_limits(ch, cm, rh, rm, t) ==
    LET rollH == rh = <<>> \/ t >= rh[1]
        rollM == rm = <<>> \/ t >= rm[1]
        ch2 == IF rollH THEN 0 ELSE ch
        rh2 == IF rollH THEN <<t + HourLen>> ELSE rh
        cm2 == IF rollM THEN 0 ELSE cm
        rm2 == IF rollM THEN <<t + MinuteLen>> ELSE rm
    IN  [ok |-> IF ch2 >= RateLimitPerHour THEN FALSE
                ELSE IF cm2 >= RateLimitPerMinute THEN FALSE
                ELSE TRUE,
         count_hour |-> ch2, reset_hour |-> rh2,
         count_minute |-> cm2, reset_minute |-> rm2]

\* self.request_count_hour += 1, self.request_count_minute += 1
CountRequest_Skip(n) == n

CountRequest(n) == n + 1

\* the branch of the catalog answer that drops the session (status 401)
InvalidatesSession_Never(r) == FALSE

InvalidatesSession(r) == r = "401"

\* what the login POST can come back with
LoginResponses ==
    {"200_cookies", "200_no_cookies", "200_login_error", "non_200", "exception"}

\* login(): True iff status 200 and the body does not hold "login" and "error"
LoginSucceeds(r) == r \in {"200_cookies", "200_no_cookies"}

\* dict(response.cookies)
ResponseCookies(r) == IF r = "200_cookies" THEN {"chocolatechip"} ELSE {}

\* what the catalog GET can come back with
GetResponses == {"200_data", "200_short", "401", "other", "exception"}

\* the value query_tle_data returns for a GET outcome
QueryReturn(r) == IF r = "200_data" THEN "content" ELSE "None"

\* the taxonomy of spec section 7 for each failure path (history only)
GetCause(r) ==
    CASE r = "200_data" -> "-"
      [] r = "401" -> "SessionExpired"
      [] OTHER -> "UpstreamUnavailable"

\* ------------------------------------------------------------------ cache
\* An Optional[List[dict]] is <<>> for None and <<list>> for a list.

Limits == 1..NumKeys

\* _get_cache_key: f"tle_active_{limit}"
_get_cache_key(lim) == <<"tle_active_", lim>>

Keys == { _get_cache_key(lim) : lim \in Limits }

\* _is_cache_valid with <= where the code has <
_is_cache_valid_Inclusive(cache, cache_key, t) ==
    IF cache[cache_key] = <<>> THEN FALSE
    ELSE (t - cache[cache_key][1].timestamp) <= CacheDuration

\* _is_cache_valid at time t
_is_cache_valid(cache, cache_key, t) ==
    IF cache[cache_key] = <<>> THEN FALSE
    ELSE (t - cache[cache_key][1].timestamp) < CacheDuration

\* _get_cached_data that finds nothing
_get_cached_data_Miss(cache, cache_key, t) == <<>>

\* _get_cached_data at time t
_get_cached_data(cache, cache_key, t) ==
    IF _is_cache_valid(cache, cache_key, t)
    THEN <<cache[cache_key][1].data>>
    ELSE <<>>

\* a store of whatever was fetched
ShouldCache_Always(fetched) == TRUE

\* `if satellites:` before self._cache_data(cache_key, satellites)
ShouldCache(fetched) == fetched # <<>>

\* _cache_data that drops the entries of the other keys
_cache_data_Evicting(cache, cache_key, data, t) ==
    [k \in DOMAIN cache |->
        IF k = cache_key THEN <<[data |-> data, timestamp |-> t]>> ELSE <<>>]

\* _cache_data at time t
_cache_data(cache, cache_key, data, t) ==
    [cache EXCEPT ![cache_key] = <<[data |-> data, timestamp |-> t]>>]

\* what a get_active_satellites call has returned: nothing yet, or None
NoResponse == [status |-> "-"]
None == [status |-> "None"]

\* the upstream catalog changes: its versions
Versions == {1, 2}

\* the dicts _parse_tle_data makes of the first n objects of version v; the
\* TLE lines of version 1 put the objects 3 km apart, those of version 2
\* 700 km apart
Catalog(v, n) ==
    [i \in 1..n |->
        [norad_id |-> 10 * v + i,
         position |-> (i - 1) * (IF v = 1 THEN 3 ELSE 700) * 10000]]

\* what _parse_tle_data can return for a text fetched with limit lim
Batches(lim) == {<<>>} \cup { Catalog(v, lim) : v \in Versions }

\* the SatelliteData objects made from dicts, with their orbital data and
\* no risk yet
SatelliteData(dicts) ==
    [i \in 1..Len(dicts) |->
        [norad_id |-> dicts[i].norad_id,
         position |-> dicts[i].position,
         has_tle |-> TRUE,
         propagates |-> TRUE,
         object_type |-> "PAYLOAD",
         altitude |-> <<550>>,
         risk |-> <<>>]]

\* the loop over satellites[:limit] from its k-th turn on: a turn whose
\* processing raises is skipped (`except Exception ... continue`), the others
\* append their object
RECURSIVE EnhancedFrom(_, _, _)
EnhancedFrom(objects, raising, k) ==
    IF k > Len(objects) THEN <<>>
    ELSE (IF k \in raising THEN <<>> ELSE <<objects[k]>>)
         \o EnhancedFrom(objects, raising, k + 1)

\* a risk pass that works on the cached dicts themselves
CacheAfterPass_InPlace(cache, cache_key) ==
    IF cache[cache_key] = <<>> THEN cache
    ELSE [cache EXCEPT ![cache_key] =
             <<[data |-> SatelliteData(cache[cache_key][1].data),
                timestamp |-> cache[cache_key][1].timestamp]>>]

\* the cache after enhancement and risk pass: they work on SatelliteData
\* objects built from the fields of the dicts, the dicts are only read
CacheAfterPass(cache, cache_key) == cache

\* ----------------------------------------------------------------- parser
\* A str is a sequence of one-character strings.

Min(a, b) == IF a <= b THEN a ELSE b

\* the characters str.strip() removes
IsSpace(c) == c \in {" ", "\n"}

RECURSIVE lstrip(_)
lstrip(s) == IF s # <<>> /\ IsSpace(Head(s)) THEN lstrip(Tail(s)) ELSE s

RECURSIVE rstrip(_)
rstrip(s) ==
    IF s # <<>> /\ IsSpace(s[Len(s)])
    THEN rstrip(SubSeq(s, 1, Len(s) - 1))
    ELSE s

\* str.strip()
strip(s) == rstrip(lstrip(s))

\* str.split('\n'): never empty, split("") is [""]
RECURSIVE split(_)
split(s) ==
    IF \A k \in 1..Len(s) : s[k] # "\n"
    THEN <<s>>
    ELSE LET k == CHOOSE j \in 1..Len(s) :
                      s[j] = "\n" /\ \A h \in 1..(j - 1) : s[h] # "\n"
         IN  <<SubSeq(s, 1, k - 1)>> \o split(SubSeq(s, k + 1, Len(s)))

\* '\n'.join(ls)
RECURSIVE join(_)
join(ls) ==
    IF ls = <<>> THEN <<>>
    ELSE IF Len(ls) = 1 THEN ls[1]
    ELSE ls[1] \o <<"\n">> \o join(Tail(ls))

\* s[a:b], Python's slice with 0 <= a <= b
Slice(s, a, b) == SubSeq(s, a + 1, Min(b, Len(s)))

\* str.startswith
startswith(s, prefix) ==
    Len(s) >= Len(prefix) /\ SubSeq(s, 1, Len(prefix)) = prefix

Digits == <<"0", "1", "2", "3", "4", "5", "6", "7", "8", "9">>

IsDigit(c) == \E d \in 1..10 : Digits[d] = c

DigitValue(c) == (CHOOSE d \in 1..10 : Digits[d] = c) - 1

\* int(s) does not raise ValueError (over the model's characters: after its
\* own strip, a non-empty run of digits)
IntParses(s) == strip(s) # <<>> /\ \A k \in 1..Len(strip(s)) : IsDigit(strip(s)[k])

RECURSIVE IntOfDigits(_)
IntOfDigits(s) ==
    IF s = <<>> THEN 0
    ELSE 10 * IntOfDigits(SubSeq(s, 1, Len(s) - 1)) + DigitValue(s[Len(s)])

\* int(s)
IntOf(s) == IntOfDigits(strip(s))

\* the validation of one pair with `and` where the code has `or`
ValidPrefixes_And(line1, line2) ==
    ~(~startswith(line1, <<"1", " ">>) /\ ~startswith(line2, <<"2", " ">>))

\* "Validate TLE format": the negation of the test that skips the pair
ValidPrefixes(line1, line2) ==
    ~(~startswith(line1, <<"1", " ">>) \/ ~startswith(line2, <<"2", " ">>))

\* the loop body that keeps a pair whose id does not parse, as id 0
ParsePair_KeepBadId(line1, line2) ==
    IF ~ValidPrefixes(line1, line2) THEN <<>>
    ELSE IF ~IntParses(Slice(line1, 2, 7))
    THEN <<[norad_id |-> 0, line1 |-> line1, line2 |-> line2]>>
    ELSE <<[norad_id |-> IntOf(Slice(line1, 2, 7)),
            line1 |-> line1, line2 |-> line2]>>

\* one turn of the loop body on the stripped lines: <<>> when the pair is
\* skipped, else the one record appended.  The epoch and the name never skip
\* a pair (their failures are caught and replaced), so a record is given by
\* its id and its two lines.
ParsePair(line1, line2) ==
    IF ~ValidPrefixes(line1, line2) THEN <<>>
    ELSE IF ~IntParses(Slice(line1, 2, 7)) THEN <<>>
    ELSE <<[norad_id |-> IntOf(Slice(line1, 2, 7)),
            line1 |-> line1, line2 |-> line2]>>

\* the limit test with > where the code has >=
LimitReached_Off(n, lim) == n > lim

\* if len(satellites) >= limit: break
LimitReached(n, lim) == n >= lim

\* the groups of lines the catalog texts of the model are made of
Str15 == <<"1", " ", "5">>
Str17 == <<" ", "1", " ", "7">>
Str25 == <<"2", " ", "5">>
Str35 == <<"3", " ", "5">>
Str1x == <<"1", " ", "x">>
ChunkShapes ==
    { <<Str15, Str25>>,       \* a valid pair, id 5
      <<Str17, Str25>>,       \* a valid pair, id 7, line 1 indented
      <<Str15, Str35>>,       \* line 2 malformed
      <<Str1x, Str25>>,       \* id not numeric
      << <<>> >> }            \* one empty line

RECURSIVE Flatten(_)
Flatten(cs) == IF cs = <<>> THEN <<>> ELSE Head(cs) \o Flatten(Tail(cs))

\* the catalog texts: up to MaxChunks groups, one line per row
Texts ==
    { join(Flatten(cs)) :
        cs \in UNION { [1..n -> ChunkShapes] : n \in 0..MaxChunks } }

\* ------------------------------------------------------------------ epoch
\* A datetime is a record [year, month, day, hour, minute] (UTC).  Durations
\* are counted in tenths of a day (144 minutes).

\* where the first "." of s is, Len(s) + 1 if it has none
DotAt(s) ==
    IF \E k \in 1..Len(s) : s[k] = "."
    THEN CHOOSE k \in 1..Len(s) : s[k] = "." /\ \A h \in 1..(k - 1) : s[h] # "."
    ELSE Len(s) + 1

AllDigits(s) == \A k \in 1..Len(s) : IsDigit(s[k])

\* float(s) does not raise ValueError (over the model's characters: after
\* its own strip, digits with at most one "." and at least one digit)
FloatParses(s) ==
    LET t == strip(s)
        ip == SubSeq(t, 1, DotAt(t) - 1)
        fp == SubSeq(t, DotAt(t) + 1, Len(t))
    IN  AllDigits(ip) /\ AllDigits(fp) /\ Len(ip) + Len(fp) > 0

\* float(s), in tenths (the model's texts have at most one fractional digit)
FloatTenths(s) ==
    LET t == strip(s)
        ip == SubSeq(t, 1, DotAt(t) - 1)
        fp == SubSeq(t, DotAt(t) + 1, Len(t))
    IN  10 * IntOfDigits(ip) + (IF fp = <<>> THEN 0 ELSE DigitValue(fp[1]))

IsLeap(y) == y % 4 = 0 /\ (y % 100 # 0 \/ y % 400 = 0)

DaysInYear(y) == IF IsLeap(y) THEN 366 ELSE 365

DaysInMonth(y, m) ==
    IF m = 2 THEN (IF IsLeap(y) THEN 29 ELSE 28)
    ELSE IF m \in {4, 6, 9, 11} THEN 30
    ELSE 31

\* the date n days after the first of month m of year y, 0 <= n < rest of y
RECURSIVE MonthDay(_, _, _)
MonthDay(y, m, n) ==
    IF n < DaysInMonth(y, m) THEN [year |-> y, month |-> m, day |-> n + 1]
    ELSE MonthDay(y, m + 1, n - DaysInMonth(y, m))

\* the date n days after January 1 of year y, n of either sign
RECURSIVE DateAfter(_, _)
DateAfter(y, n) ==
    IF n < 0 THEN DateAfter(y - 1, n + DaysInYear(y - 1))
    ELSE IF n >= DaysInYear(y) THEN DateAfter(y + 1, n - DaysInYear(y))
    ELSE MonthDay(y, 1, n)

\* datetime(year, 1, 1, tzinfo=utc) + timedelta(days = tenths / 10)
AddTenths(year, tenths) ==
    LET d == DateAfter(year, tenths \div 10)
        mins == (tenths % 10) * 144
    IN  [year |-> d.year, month |-> d.month, day |-> d.day,
         hour |-> mins \div 60, minute |-> mins % 60]

\* the two-digit year made four-digit
FullYear(year_part) ==
    IF year_part < 57 THEN 2000 + year_part ELSE 1900 + year_part

\* day_part taken as a count from zero
DayOffset_FromZero(day_part) == day_part

\* day_part - 1, in tenths
DayOffset(day_part) == day_part - 10

\* datetime.now(timezone.utc), whatever the clock reads
UtcNow == [clock |-> "now"]

\* _parse_tle_epoch: the datetime it returns, the current time when int() or
\* float() raises
_parse_tle_epoch(s) ==
    IF ~IntParses(Slice(s, 0, 2)) \/ ~FloatParses(Slice(s, 2, Len(s)))
    THEN UtcNow
    ELSE LET year_part == IntOf(Slice(s, 0, 2))
             day_part == FloatTenths(Slice(s, 2, Len(s)))
         IN  AddTenths(FullYear(year_part), DayOffset(day_part))

\* the epoch field YYDDD.D for year yy, day d of the year and f tenths
EncodeEpoch(yy, d, f) ==
    <<Digits[(yy \div 10) + 1], Digits[(yy % 10) + 1],
      Digits[((d \div 100) % 10) + 1], Digits[((d \div 10) % 10) + 1],
      Digits[(d % 10) + 1], ".", Digits[f + 1]>>

\* the day fractions of the model's epoch fields, in tenths
Tenths == {0, 5}

\* epoch fields that do not parse
BadEpochs ==
    { <<>>, <<"2", "4">>, <<"2", "x", "1", ".", "5">>,
      <<"2", "4", "1", ".", "5", ".">> }

\* ------------------------------------------------------------ risk engine
\* A distance is a whole number of 0.0001 km; a probability is a whole
\* number of 0.0001 percent.

\* float('inf'): above every distance there is
Infinity == 1000000000

\* _calculate_risk_level with < where the code has <=
_calculate_risk_level_Exclusive(d) ==
    IF d < ThresholdCritical THEN "CRITICAL"
    ELSE IF d < ThresholdHigh THEN "HIGH"
    ELSE IF d < ThresholdMedium THEN "MEDIUM"
    ELSE "LOW"

\* _calculate_risk_level
_calculate_risk_level(d) ==
    IF d <= ThresholdCritical THEN "CRITICAL"
    ELSE IF d <= ThresholdHigh THEN "HIGH"
    ELSE IF d <= ThresholdMedium THEN "MEDIUM"
    ELSE "LOW"

\* SatelliteType
ObjectTypes == {"PAYLOAD", "ROCKET_BODY", "DEBRIS", "UNKNOWN"}

\* base_probability, in 0.01 percent
BaseProbability(d) ==
    IF d <= 5 * 10000 THEN 2500
    ELSE IF d <= 25 * 10000 THEN 1000
    ELSE IF d <= 100 * 10000 THEN 200
    ELSE IF d <= 500 * 10000 THEN 10
    ELSE 1

\* density_multiplier = 1.0 + nearby_count * 0.1, in tenths
DensityMultiplier(n) == 10 + n

\* a type multiplier that ignores the type
TypeMultiplier_Flat(type) == 10

\* type_multiplier, in tenths
TypeMultiplier(type) ==
    IF type = "DEBRIS" THEN 15
    ELSE IF type = "ROCKET_BODY" THEN 12
    ELSE 10

\* the probability returned without the cap
CapAt100_Off(x) == x

\* min(final_probability, 100.0)
CapAt100(x) == Min(x, 100 * 10000)

\* _calculate_collision_probability
_calculate_collision_probability(d, n, type) ==
    CapAt100(BaseProbability(d) * DensityMultiplier(n) * TypeMultiplier(type))

\* the distances the risk functions are tried on: each threshold, one step
\* to either side of it, no distance at all
Distances ==
    { t + e : t \in {0, ThresholdCritical, ThresholdHigh, ThresholdMedium,
                     ThresholdLow},
              e \in {0, 1, 9999} }
      \cup { t - 1 : t \in {ThresholdCritical, ThresholdHigh, ThresholdMedium,
                            ThresholdLow} }
      \cup {Infinity}

\* _calculate_debris_environment_score
_calculate_debris_environment_score(satellite, nearby_objects) ==
    LET band == IF satellite.altitude = <<>> \/ satellite.altitude = <<0>>
                THEN 0
                ELSE LET altitude == satellite.altitude[1]
                     IN  IF 400 <= altitude /\ altitude <= 600 THEN 30
                         ELSE IF 700 <= altitude /\ altitude <= 900 THEN 20
                         ELSE IF altitude >= 35000 THEN 25
                         ELSE 10
        ofType(t) == Cardinality({k \in 1..Len(nearby_objects) :
                                     nearby_objects[k].object_type = t})
        very_close == Cardinality({k \in 1..Len(nearby_objects) :
                        nearby_objects[k].distance_km <= 50 * 10000})
    IN  Min(band + 3 * ofType("DEBRIS") + 2 * ofType("ROCKET_BODY")
              + Len(nearby_objects) + 5 * very_close, 100)

\* the difference of the positions taken without its norm
calculate_distance_between_satellites_Signed(a, b) == a.position - b.position

\* orbital_service.calculate_distance_between_satellites for two objects of
\* the model, which lie on one line
calculate_distance_between_satellites(a, b) ==
    IF a.position >= b.position THEN a.position - b.position
    ELSE b.position - a.position

\* a distance call in which nothing raises
PropagationFails_Never(a, b) == FALSE

\* calculate_distance_between_satellites returns None: building or
\* propagating either of the two objects raises
PropagationFails(a, b) == ~a.propagates \/ ~b.propagates

\* a closest distance that follows the last distance computed
Closer_Always(distance, closest) == TRUE

\* `if distance < closest_distance`
Closer(distance, closest) == distance < closest

\* the loop of assess_collision_risk over all_satellites[1..k]: the closest
\* distance and the nearby objects so far
RECURSIVE ScanOthers(_, _, _)
ScanOthers(satellite, all_satellites, k) ==
    IF k = 0 THEN [closest_distance |-> Infinity, nearby_objects |-> <<>>]
    ELSE LET before == ScanOthers(satellite, all_satellites, k - 1)
             other_sat == all_satellites[k]
             distance == calculate_distance_between_satellites(satellite,
                                                               other_sat)
         IN  IF other_sat.norad_id = satellite.norad_id THEN before
             ELSE IF ~other_sat.has_tle THEN before
             ELSE IF PropagationFails(satellite, other_sat) THEN before
             ELSE [closest_distance |->
                       IF Closer(distance, before.closest_distance)
                       THEN distance ELSE before.closest_distance,
                   nearby_objects |->
                       IF distance <= ThresholdLow
                       THEN Append(before.nearby_objects,
                                   [norad_id |-> other_sat.norad_id,
                                    distance_km |-> distance,
                                    object_type |-> other_sat.object_type])
                       ELSE before.nearby_objects]

\* assess_collision_risk when nothing in it raises: the RiskAssessment
assess_collision_risk(satellite, all_satellites) ==
    LET scan == ScanOthers(satellite, all_satellites, Len(all_satellites))
    IN  [collision_risk_level |-> _calculate_risk_level(scan.closest_distance),
         collision_probability |->
             _calculate_collision_probability(scan.closest_distance,
                                              Len(scan.nearby_objects),
                                              satellite.object_type),
         nearby_objects_count |-> Len(scan.nearby_objects),
         closest_approach_km |->
             IF scan.closest_distance # Infinity
             THEN <<scan.closest_distance>> ELSE <<>>,
         debris_environment_score |->
             _calculate_debris_environment_score(satellite,
                                                 scan.nearby_objects)]

\* a failed assessment that leaves a default rating
AssessmentFailed_Default(satellite) ==
    <<[collision_risk_level |-> "LOW", collision_probability |-> 0,
       nearby_objects_count |-> 0, closest_approach_km |-> <<>>,
       debris_environment_score |-> 0]>>

\* what assess_collision_risk returns when the satellite has no TLE lines or
\* something in it raises: None
AssessmentFailed(satellite) == <<>>

\* a semaphore that lets everyone in
CanAcquire_Always(value) == TRUE

\* Semaphore.acquire does not have to wait
CanAcquire(value) == value > 0

\* an exit from `async with semaphore` that keeps the place
Release_Leak(value) == value

\* Semaphore.release, on leaving `async with semaphore` normally or by an
\* exception
Release(value) == value + 1

\* the result of the task that ends after `done` others, put where the
\* tasks that ended before it left off
ResultSlot_ByCompletion(i, done) == done + 1

\* satellite.risk = risk: the task of the i-th satellite writes to the
\* i-th satellite, however many tasks are done
ResultSlot(i, done) == i

\* a test that tags MEDIUM as well
IsHighRisk_FromMedium(r) ==
    r # <<>> /\ r[1].collision_risk_level \in {"MEDIUM", "HIGH", "CRITICAL"}

\* satellite.risk and satellite.risk.collision_risk_level in ["HIGH", "CRITICAL"]
IsHighRisk(r) ==
    r # <<>> /\ r[1].collision_risk_level \in {"HIGH", "CRITICAL"}

\* find_high_risk_satellites over satellites[k..]
RECURSIVE HighRiskFrom(_, _, _)
HighRiskFrom(sats, risks, k) ==
    IF k > Len(sats) THEN <<>>
    ELSE (IF IsHighRisk(risks[k])
          THEN <<sats[k].norad_id>> ELSE <<>>)
         \o HighRiskFrom(sats, risks, k + 1)

find_high_risk_satellites(sats, risks) == HighRiskFrom(sats, risks, 1)

\* the objects of the model's batches: the i-th lies 3 (i-1)^3 km along the
\* line, so the first two are 3 km apart and the gaps grow past 100 km
SatelliteAt(i) ==
    [norad_id |-> 100 + i,
     position |-> 3 * 10000 * (i - 1) * (i - 1) * (i - 1),
     has_tle |-> TRUE,
     propagates |-> TRUE,
     object_type |-> <<"PAYLOAD", "DEBRIS", "ROCKET_BODY", "UNKNOWN">>[(i % 4) + 1],
     altitude |-> <<<<>>, <<550>>, <<800>>, <<36000>>, <<1200>>>>[(i % 5) + 1]]

BatchOf(n) == [i \in 1..n |-> SatelliteAt(i)]

\* three objects, the i-th at positions[i]
Placed(positions) ==
    [i \in 1..3 |-> [SatelliteAt(i) EXCEPT !.position = positions[i]]]

\* where a third object lies that is more than 500 km from two objects at
\* 0 and 3 km: just beyond 503 km, and at 700 km
FarPositions == {3 * 10000 + ThresholdLow + 1, 700 * 10000}

\* a pair 3 km apart and a third object far from both, in every list order
CloseApproachBatches ==
    { Placed(ps) : ps \in { <<0, 3 * 10000, far>> : far \in FarPositions }
                        \cup { <<3 * 10000, 0, far>> : far \in FarPositions }
                        \cup { <<0, far, 3 * 10000>> : far \in FarPositions }
                        \cup { <<far, 3 * 10000, 0>> : far \in FarPositions } }

\* the batch b with line1 or line2 of its i-th object empty, and with an
\* i-th object that cannot be propagated
WithoutTle(b, i) == [b EXCEPT ![i].has_tle = FALSE]
NotPropagating(b, i) == [b EXCEPT ![i].propagates = FALSE]

\* batches of three with one such object, and a batch of four with one of
\* each kind
DegradedBatches ==
    { WithoutTle(BatchOf(3), i) : i \in 1..3 }
       \cup { NotPropagating(BatchOf(3), i) : i \in 1..3 }
       \cup { NotPropagating(WithoutTle(BatchOf(4), 1), 3) }

\* the satellites of b for which assess_collision_risk returns None at once
\* (`if not satellite.line1 or not satellite.line2`)
MissingTle(b) == { i \in 1..Len(b) : ~b[i].has_tle }

\* the lists of satellites the risk pass is tried on
ModelBatches ==
    { BatchOf(n) : n \in 1..MaxBatch } \cup CloseApproachBatches
       \cup DegradedBatches

\* `if distance and distance <= self.risk_thresholds["medium"]`: a float
\* is true unless it is 0.0, None is false
WithinMedium(distance) ==
    distance # <<>> /\ distance[1] # 0 /\ distance[1] <= ThresholdMedium

\* what the pair's distance can be at a sampled time: none, zero, 3 km, the
\* MEDIUM threshold and one step beyond it
SampleDistances ==
    {<<>>, <<0>>, <<30000>>, <<ThresholdMedium>>, <<ThresholdMedium + 1>>}

\* ---------------------------------------------------------------- actions

\* the parser at rest
ParserIdle ==
    /\ tle_text = <<>>
    /\ limit = 0
    /\ lines = <<>>
    /\ idx = 0
    /\ satellites = <<>>
    /\ ppc = "returned"

\* the gateway as constructed
GatewayInit ==
    /\ now = 0
    /\ configured \in BOOLEAN
    /\ session_cookies = {}
    /\ session_expires = <<>>
    /\ request_count_hour = 0
    /\ request_count_minute = 0
    /\ rate_limit_reset_hour = <<>>
    /\ rate_limit_reset_minute = <<>>
    /\ pc = [p \in Calls |-> "idle"]
    /\ result = [p \in Calls |-> "-"]
    /\ cause = [p \in Calls |-> "-"]
    /\ posts = [p \in Calls |-> 0]
    /\ gets = [p \in Calls |-> 0]
    /\ okInWindow = 0

\* no call of _parse_tle_epoch
EpochIdle ==
    /\ encoded = <<>>
    /\ epoch_str = <<>>
    /\ epoch = <<>>
    /\ epc = "returned"

\* the aggregator as constructed: an empty cache, no request
ServiceInit ==
    /\ _tle_cache = [k \in Keys |-> <<>>]
    /\ req_pc = [p \in Calls |-> "idle"]
    /\ req_limit = [p \in Calls |-> 0]
    /\ req_satellites = [p \in Calls |-> <<>>]
    /\ response = [p \in Calls |-> NoResponse]

\* no call of the risk functions
EngineIdle ==
    /\ closest_distance = 0
    /\ nearby_count = 0
    /\ object_type = "UNKNOWN"
    /\ risk_level = <<>>
    /\ collision_probability = <<>>

\* no risk pass
PassIdle ==
    /\ batch = <<>>
    /\ failing = {}
    /\ task = <<>>
    /\ semaphore = MaxConcurrent
    /\ risk = <<>>
    /\ finished = 0
    /\ pass_pc = "listed"
    /\ high_risk_ids = <<>>

\* no call of predict_conjunction_events
PredictIdle ==
    /\ hours_ahead = 0
    /\ sample_distance = <<>>
    /\ current_time = 0
    /\ hour = 0
    /\ events = <<>>
    /\ pred_pc = "returned"

\* the process after start-up, before any request
OnlineInit == GatewayInit /\ ServiceInit

Init ==
    OnlineInit /\ ParserIdle /\ EpochIdle /\ EngineIdle /\ PassIdle
               /\ PredictIdle

\* time passes
Tick ==
    /\ now < MaxTime
    /\ now' = now + 1
    /\ UNCHANGED <<configured, session_cookies, session_expires,
                   request_count_hour, request_count_minute,
                   rate_limit_reset_hour, rate_limit_reset_minute>>
    /\ UNCHANGED callVars
    /\ UNCHANGED serviceVars
    /\ UNCHANGED offlineVars

\* query_tle_data up to its first await: the quota check, the session test,
\* login()'s credential test, and the request that leaves
query_tle_data(p) ==
    /\ pc[p] \in {"idle", "done"}
    /\ LET rl == _check_rate_limits(request_count_hour, request_count_minute,
                                 rate_limit_reset_hour, rate_limit_reset_minute,
                                 now)
           rolled == rl.reset_minute # rate_limit_reset_minute
           valid == _is_session_valid(session_cookies, session_expires, now)
       IN  /\ request_count_hour' = rl.count_hour
           /\ request_count_minute' = rl.count_minute
           /\ rate_limit_reset_hour' = rl.reset_hour
           /\ rate_limit_reset_minute' = rl.reset_minute
           /\ okInWindow' = IF rolled THEN 0 ELSE okInWindow
           /\ IF ~rl.ok
              THEN /\ pc' = [pc EXCEPT ![p] = "done"]
                   /\ result' = [result EXCEPT ![p] = "None"]
                   /\ cause' = [cause EXCEPT ![p] = "RateLimitError"]
                   /\ UNCHANGED <<posts, gets>>
              ELSE IF valid
              THEN /\ pc' = [pc EXCEPT ![p] = "get"]
                   /\ gets' = [gets EXCEPT ![p] = @ + 1]
                   /\ result' = [result EXCEPT ![p] = "-"]
                   /\ cause' = [cause EXCEPT ![p] = "-"]
                   /\ UNCHANGED posts
              ELSE IF ~_check_credentials(configured)
              THEN /\ pc' = [pc EXCEPT ![p] = "done"]
                   /\ result' = [result EXCEPT ![p] = "None"]
                   /\ cause' = [cause EXCEPT ![p] = "AuthError"]
                   /\ UNCHANGED <<posts, gets>>
              ELSE /\ pc' = [pc EXCEPT ![p] = "login"]
                   /\ posts' = [posts EXCEPT ![p] = @ + 1]
                   /\ result' = [result EXCEPT ![p] = "-"]
                   /\ cause' = [cause EXCEPT ![p] = "-"]
                   /\ UNCHANGED gets
    /\ UNCHANGED <<now, configured, session_cookies, session_expires>>
    /\ UNCHANGED offlineVars

\* login() from the POST's answer on, and query_tle_data up to its GET
login(p, r) ==
    /\ pc[p] = "login"
    /\ IF LoginSucceeds(r)
       THEN /\ session_cookies' = ResponseCookies(r)
            /\ session_expires' = <<now + SessionTimeout>>
            /\ pc' = [pc EXCEPT ![p] = "get"]
            /\ gets' = [gets EXCEPT ![p] = @ + 1]
            /\ UNCHANGED <<result, cause, posts>>
       ELSE /\ pc' = [pc EXCEPT ![p] = "done"]
            /\ result' = [result EXCEPT ![p] = "None"]
            /\ cause' = [cause EXCEPT ![p] = "AuthError"]
            /\ posts' = [posts EXCEPT ![p] = 0]
            /\ UNCHANGED <<session_cookies, session_expires, gets>>
    /\ UNCHANGED <<now, configured, request_count_hour, request_count_minute,
                   rate_limit_reset_hour, rate_limit_reset_minute, okInWindow>>
    /\ UNCHANGED offlineVars

\* query_tle_data that logs in again by itself when the GET is answered 401
query_tle_data_answer_retry(p, r) ==
    /\ pc[p] = "get"
    /\ pc' = [pc EXCEPT ![p] = IF r = "401" THEN "login" ELSE "done"]
    /\ result' = [result EXCEPT ![p] =
                     IF r = "401" THEN "-" ELSE QueryReturn(r)]
    /\ cause' = [cause EXCEPT ![p] = IF r = "401" THEN "-" ELSE GetCause(r)]
    /\ IF r = "exception"
       THEN UNCHANGED <<request_count_hour, request_count_minute, okInWindow>>
       ELSE /\ request_count_hour' = CountRequest(request_count_hour)
            /\ request_count_minute' = CountRequest(request_count_minute)
            /\ okInWindow' = okInWindow + 1
    /\ IF InvalidatesSession(r)
       THEN /\ session_cookies' = {}
            /\ session_expires' = <<>>
       ELSE UNCHANGED <<session_cookies, session_expires>>
    /\ posts' = [posts EXCEPT ![p] = IF r = "401" THEN @ + 1 ELSE 0]
    /\ gets' = [gets EXCEPT ![p] = IF r = "401" THEN @ ELSE 0]
    /\ UNCHANGED <<now, configured, rate_limit_reset_hour,
                   rate_limit_reset_minute>>
    /\ UNCHANGED offlineVars

\* query_tle_data from the GET's answer on
query_tle_data_answer(p, r) ==
    /\ pc[p] = "get"
    /\ pc' = [pc EXCEPT ![p] = "done"]
    /\ result' = [result EXCEPT ![p] = QueryReturn(r)]
    /\ cause' = [cause EXCEPT ![p] = GetCause(r)]
    /\ IF r = "exception"
       THEN UNCHANGED <<request_count_hour, request_count_minute, okInWindow>>
       ELSE /\ request_count_hour' = CountRequest(request_count_hour)
            /\ request_count_minute' = CountRequest(request_count_minute)
            /\ okInWindow' = okInWindow + 1
    /\ IF InvalidatesSession(r)
       THEN /\ session_cookies' = {}
            /\ session_expires' = <<>>
       ELSE UNCHANGED <<session_cookies, session_expires>>
    /\ posts' = [posts EXCEPT ![p] = 0]
    /\ gets' = [gets EXCEPT ![p] = 0]
    /\ UNCHANGED <<now, configured, rate_limit_reset_hour,
                   rate_limit_reset_minute>>
    /\ UNCHANGED offlineVars

\* the gateway called directly, the aggregator at rest
Next ==
    \/ Tick
    \/ \E p \in Calls : query_tle_data(p) /\ UNCHANGED serviceVars
    \/ \E p \in Calls : \E r \in LoginResponses :
          login(p, r) /\ UNCHANGED serviceVars
    \/ \E p \in Calls : \E r \in GetResponses :
          query_tle_data_answer(p, r) /\ UNCHANGED serviceVars

Spec == Init /\ [][Next]_vars

\* ------------------------------------- login() and test_connection called

\* login() up to its await, called by itself (next = "login_only") or by
\* test_connection (next = "tc_login")
login_begin(p, next) ==
    /\ pc[p] \in {"idle", "done"}
    /\ IF ~_check_credentials(configured)
       THEN /\ pc' = [pc EXCEPT ![p] = "done"]
            /\ result' = [result EXCEPT ![p] = "False"]
            /\ cause' = [cause EXCEPT ![p] = "AuthError"]
            /\ UNCHANGED <<posts, gets>>
       ELSE /\ pc' = [pc EXCEPT ![p] = next]
            /\ posts' = [posts EXCEPT ![p] = @ + 1]
            /\ result' = [result EXCEPT ![p] = "-"]
            /\ cause' = [cause EXCEPT ![p] = "-"]
            /\ UNCHANGED gets
    /\ UNCHANGED <<gwVars, okInWindow>>
    /\ UNCHANGED offlineVars

\* login() called by itself, up to its await
login_call(p) == login_begin(p, "login_only")

\* login() called by itself, from the POST's answer on
login_return(p, r) ==
    /\ pc[p] = "login_only"
    /\ IF LoginSucceeds(r)
       THEN /\ session_cookies' = ResponseCookies(r)
            /\ session_expires' = <<now + SessionTimeout>>
            /\ result' = [result EXCEPT ![p] = "True"]
            /\ UNCHANGED cause
       ELSE /\ result' = [result EXCEPT ![p] = "False"]
            /\ cause' = [cause EXCEPT ![p] = "AuthError"]
            /\ UNCHANGED <<session_cookies, session_expires>>
    /\ pc' = [pc EXCEPT ![p] = "done"]
    /\ posts' = [posts EXCEPT ![p] = 0]
    /\ UNCHANGED <<now, configured, request_count_hour, request_count_minute,
                   rate_limit_reset_hour, rate_limit_reset_minute, okInWindow,
                   gets>>
    /\ UNCHANGED offlineVars

\* test_connection up to the await of its login()
test_connection(p) == login_begin(p, "tc_login")

\* test_connection from the answer to its login POST on: login() returns,
\* and on success query_tle_data(limit=5, epoch_days=7) runs up to its first
\* await.  From there the call goes on as that query_tle_data call, and
\* test_connection returns whether it returned content.
test_connection_login(p, r) ==
    /\ pc[p] = "tc_login"
    /\ IF ~LoginSucceeds(r)
       THEN /\ pc' = [pc EXCEPT ![p] = "done"]
            /\ result' = [result EXCEPT ![p] = "False"]
            /\ cause' = [cause EXCEPT ![p] = "AuthError"]
            /\ posts' = [posts EXCEPT ![p] = 0]
            /\ UNCHANGED <<session_cookies, session_expires,
                           request_count_hour, request_count_minute,
                           rate_limit_reset_hour, rate_limit_reset_minute,
                           okInWindow, gets>>
       ELSE LET rl == _check_rate_limits(request_count_hour,
                                         request_count_minute,
                                         rate_limit_reset_hour,
                                         rate_limit_reset_minute, now)
                rolled == rl.reset_minute # rate_limit_reset_minute
            IN  /\ session_cookies' = ResponseCookies(r)
                /\ session_expires' = <<now + SessionTimeout>>
                /\ request_count_hour' = rl.count_hour
                /\ request_count_minute' = rl.count_minute
                /\ rate_limit_reset_hour' = rl.reset_hour
                /\ rate_limit_reset_minute' = rl.reset_minute
                /\ okInWindow' = IF rolled THEN 0 ELSE okInWindow
                /\ IF ~rl.ok
                   THEN /\ pc' = [pc EXCEPT ![p] = "done"]
                        /\ result' = [result EXCEPT ![p] = "False"]
                        /\ cause' = [cause EXCEPT ![p] = "RateLimitError"]
                        /\ posts' = [posts EXCEPT ![p] = 0]
                        /\ UNCHANGED gets
                   ELSE IF _is_session_valid(ResponseCookies(r),
                                             <<now + SessionTimeout>>, now)
                   THEN /\ pc' = [pc EXCEPT ![p] = "get"]
                        /\ gets' = [gets EXCEPT ![p] = @ + 1]
                        /\ UNCHANGED <<result, cause, posts>>
                   ELSE /\ pc' = [pc EXCEPT ![p] = "login"]
                        /\ posts' = [posts EXCEPT ![p] = @ + 1]
                        /\ UNCHANGED <<result, cause, gets>>
    /\ UNCHANGED <<now, configured>>
    /\ UNCHANGED offlineVars

\* the gateway with all three of its operations called directly
NextSetup ==
    \/ Next
    \/ \E p \in Calls : login_call(p) /\ UNCHANGED serviceVars
    \/ \E p \in Calls : \E r \in LoginResponses :
          login_return(p, r) /\ UNCHANGED serviceVars
    \/ \E p \in Calls : test_connection(p) /\ UNCHANGED serviceVars
    \/ \E p \in Calls : \E r \in LoginResponses :
          test_connection_login(p, r) /\ UNCHANGED serviceVars

SpecSetup == Init /\ [][NextSetup]_vars

\* ------------------------------------------------------------ aggregator

\* the call ends without data: _fetch_tle_data returned [], the result is None
NoData(p) ==
    /\ req_pc' = [req_pc EXCEPT ![p] = "done"]
    /\ req_satellites' = [req_satellites EXCEPT ![p] = <<>>]
    /\ response' = [response EXCEPT ![p] = None]

\* get_active_satellites(limit) up to its first await: the cache lookup and,
\* on a miss, _fetch_tle_data up to the first await of query_tle_data.  Each
\* p is one request to the aggregator.
get_active_satellites(p, lim) ==
    /\ req_pc[p] = "idle"
    /\ req_limit' = [req_limit EXCEPT ![p] = lim]
    /\ LET cache_key == _get_cache_key(lim)
           cached_satellites == _get_cached_data(_tle_cache, cache_key, now)
       IN  IF cached_satellites # <<>> /\ cached_satellites[1] # <<>>
           THEN /\ req_satellites' = [req_satellites EXCEPT ![p] =
                                         Slice(cached_satellites[1], 0, lim)]
                /\ req_pc' = [req_pc EXCEPT ![p] = "weather"]
                /\ response' = [response EXCEPT ![p] = NoResponse]
                /\ UNCHANGED <<gwVars, callVars, offlineVars>>
           ELSE /\ query_tle_data(p)
                /\ IF pc'[p] = "done"
                   THEN NoData(p)
                   ELSE /\ req_pc' = [req_pc EXCEPT ![p] = "fetch"]
                        /\ req_satellites' = [req_satellites EXCEPT ![p] = <<>>]
                        /\ response' = [response EXCEPT ![p] = NoResponse]
    /\ UNCHANGED _tle_cache

\* _fetch_tle_data while query_tle_data logs in
fetch_login(p, r) ==
    /\ req_pc[p] = "fetch"
    /\ login(p, r)
    /\ IF pc'[p] = "done"
       THEN NoData(p)
       ELSE UNCHANGED <<req_pc, req_satellites, response>>
    /\ UNCHANGED <<_tle_cache, req_limit>>

\* _fetch_tle_data from the answer of the catalog GET on: the text is parsed
\* into the batch b, and a non-empty batch is cached
fetch_answer(p, r, b) ==
    /\ req_pc[p] = "fetch"
    /\ query_tle_data_answer(p, r)
    /\ LET fetched == IF result'[p] = "content" THEN b ELSE <<>>
       IN  /\ _tle_cache' =
                  IF ShouldCache(fetched)
                  THEN _cache_data(_tle_cache, _get_cache_key(req_limit[p]),
                                   fetched, now)
                  ELSE _tle_cache
           /\ IF fetched # <<>>
              THEN /\ req_satellites' = [req_satellites EXCEPT ![p] = fetched]
                   /\ req_pc' = [req_pc EXCEPT ![p] = "weather"]
                   /\ UNCHANGED response
              ELSE NoData(p)
    /\ UNCHANGED req_limit

\* a risk pass over any list
PassRuns_Always(include_collision_risk, n) == TRUE

\* `if include_collision_risk and len(enhanced_satellites) > 1`
PassRuns(include_collision_risk, n) == include_collision_risk /\ n > 1

\* the list after _assess_collision_risks has run over it to its end: each
\* object carries its assessment
Assessed(sats) ==
    [i \in 1..Len(sats) |->
        [sats[i] EXCEPT !.risk = <<assess_collision_risk(sats[i], sats)>>]]

\* get_active_satellites from the space weather on: the SatelliteData
\* objects of the turns that do not raise, the risk pass over them, the
\* high-risk ids, the response
respond(p, raising, include_collision_risk) ==
    /\ req_pc[p] = "weather"
    /\ raising \subseteq 1..Len(Slice(req_satellites[p], 0, req_limit[p]))
    /\ LET built == EnhancedFrom(SatelliteData(Slice(req_satellites[p], 0,
                                                     req_limit[p])),
                                 raising, 1)
           enhanced_satellites ==
               IF PassRuns(include_collision_risk, Len(built))
               THEN Assessed(built) ELSE built
           high_risk_ids_ ==
               find_high_risk_satellites(
                   enhanced_satellites,
                   [i \in 1..Len(enhanced_satellites) |->
                       enhanced_satellites[i].risk])
       IN  response' = [response EXCEPT ![p] =
               [status |-> "response",
                satellites |-> enhanced_satellites,
                total_count |-> Len(enhanced_satellites),
                high_risk_satellites |-> high_risk_ids_]]
    /\ _tle_cache' = CacheAfterPass(_tle_cache, _get_cache_key(req_limit[p]))
    /\ req_pc' = [req_pc EXCEPT ![p] = "done"]
    /\ req_satellites' = [req_satellites EXCEPT ![p] = <<>>]
    /\ UNCHANGED <<req_limit, gwVars, callVars, offlineVars>>

\* requests to the aggregator, which alone calls the gateway
NextService ==
    \/ Tick
    \/ \E p \in Calls : \E lim \in Limits : get_active_satellites(p, lim)
    \/ \E p \in Calls : \E r \in LoginResponses : fetch_login(p, r)
    \/ \E p \in Calls : \E r \in GetResponses :
          \E b \in Batches(req_limit[p]) : fetch_answer(p, r, b)
    \/ \E p \in Calls : \E raising \in SUBSET Limits :
          \E include_collision_risk \in BOOLEAN :
             respond(p, raising, include_collision_risk)

SpecService == Init /\ [][NextService]_vars

\* the aggregator in a process that has served requests before: at time 0
\* the gateway has logged in and k catalog requests of earlier callers have
\* been answered
InitBusy ==
    /\ ParserIdle /\ EpochIdle /\ EngineIdle /\ PassIdle /\ PredictIdle
    /\ ServiceInit
    /\ now = 0
    /\ configured = TRUE
    /\ session_cookies = ResponseCookies("200_cookies")
    /\ session_expires = <<SessionTimeout>>
    /\ \E k \in 1..RateLimitPerMinute :
          /\ request_count_hour = k
          /\ request_count_minute = k
          /\ okInWindow = k
    /\ rate_limit_reset_hour = <<HourLen>>
    /\ rate_limit_reset_minute = <<MinuteLen>>
    /\ pc = [p \in Calls |-> "idle"]
    /\ result = [p \in Calls |-> "-"]
    /\ cause = [p \in Calls |-> "-"]
    /\ posts = [p \in Calls |-> 0]
    /\ gets = [p \in Calls |-> 0]

SpecBusy == InitBusy /\ [][NextService]_vars

\* _parse_tle_data is called with a text and a limit
InitParser ==
    /\ GatewayInit
    /\ ServiceInit
    /\ configured = TRUE
    /\ tle_text \in Texts
    /\ limit \in 1..MaxLimit
    /\ lines = <<>>
    /\ idx = 0
    /\ satellites = <<>>
    /\ ppc = "call"
    /\ EpochIdle
    /\ EngineIdle
    /\ PassIdle
    /\ PredictIdle

\* lines = tle_text.strip().split('\n'); satellites = []
parse_begin ==
    /\ ppc = "call"
    /\ lines' = split(strip(tle_text))
    /\ idx' = 0
    /\ satellites' = <<>>
    /\ ppc' = "loop"
    /\ UNCHANGED <<tle_text, limit>>
    /\ UNCHANGED nonParserVars

\* one turn of `for i in range(0, len(lines), 2)` that gets past both breaks
parse_pair ==
    /\ ppc = "loop"
    /\ idx < Len(lines)
    /\ ~(idx + 1 >= Len(lines))
    /\ ~LimitReached(Len(satellites), limit)
    /\ satellites' = satellites \o ParsePair(strip(lines[idx + 1]),
                                             strip(lines[idx + 2]))
    /\ idx' = idx + 2
    /\ UNCHANGED <<tle_text, limit, lines, ppc>>
    /\ UNCHANGED nonParserVars

\* the loop ends (range exhausted or a break): return satellites
parse_return ==
    /\ ppc = "loop"
    /\ \/ ~(idx < Len(lines))
       \/ idx + 1 >= Len(lines)
       \/ LimitReached(Len(satellites), limit)
    /\ ppc' = "returned"
    /\ UNCHANGED <<tle_text, limit, lines, idx, satellites>>
    /\ UNCHANGED nonParserVars

NextParser == parse_begin \/ parse_pair \/ parse_return

SpecParser == InitParser /\ [][NextParser]_vars

\* _parse_tle_epoch is called with an epoch field
InitEpoch ==
    /\ GatewayInit
    /\ ServiceInit
    /\ configured = TRUE
    /\ ParserIdle
    /\ EngineIdle
    /\ PassIdle
    /\ PredictIdle
    /\ \/ \E yy \in 0..99, d \in 1..MaxDay, f \in Tenths :
             /\ encoded = <<[yy |-> yy, day |-> d, tenth |-> f]>>
             /\ epoch_str = EncodeEpoch(yy, d, f)
       \/ /\ encoded = <<>>
          /\ epoch_str \in BadEpochs
    /\ epoch = <<>>
    /\ epc = "call"

\* the call runs and returns
parse_tle_epoch ==
    /\ epc = "call"
    /\ epoch' = <<_parse_tle_epoch(epoch_str)>>
    /\ epc' = "returned"
    /\ UNCHANGED <<encoded, epoch_str>>
    /\ UNCHANGED nonEpochVars

NextEpoch == parse_tle_epoch

SpecEpoch == InitEpoch /\ [][NextEpoch]_vars

\* the risk functions are called for a closest distance, a count and a type
InitEngine ==
    /\ OnlineInit
    /\ configured = TRUE
    /\ ParserIdle
    /\ EpochIdle
    /\ PassIdle
    /\ PredictIdle
    /\ closest_distance \in Distances
    /\ nearby_count \in 0..MaxNearby
    /\ object_type \in ObjectTypes
    /\ risk_level = <<>>
    /\ collision_probability = <<>>

\* risk_level = self._calculate_risk_level(closest_distance)
calculate_risk_level ==
    /\ risk_level = <<>>
    /\ risk_level' = <<_calculate_risk_level(closest_distance)>>
    /\ UNCHANGED <<closest_distance, nearby_count, object_type,
                   collision_probability>>
    /\ UNCHANGED nonEngineVars

\* collision_probability = self._calculate_collision_probability(...)
calculate_collision_probability ==
    /\ risk_level # <<>>
    /\ collision_probability = <<>>
    /\ collision_probability' =
          <<_calculate_collision_probability(closest_distance, nearby_count,
                                             object_type)>>
    /\ UNCHANGED <<closest_distance, nearby_count, object_type, risk_level>>
    /\ UNCHANGED nonEngineVars

NextEngine == calculate_risk_level \/ calculate_collision_probability

SpecEngine == InitEngine /\ [][NextEngine]_vars

\* ------------------------------------------------------------- risk pass
\* assess_collision_risk is awaited inside the semaphore: the task may be
\* suspended there, so that acquiring and finishing are two steps.

\* get_active_satellites has its enhanced satellites.  With two or more of
\* them and include_collision_risk set, _assess_collision_risks is called;
\* the assessments that return None (`failing`) are those of the satellites
\* without TLE lines and of at most one more, in which something raises.
\* Else the pass is skipped.
InitPass ==
    /\ OnlineInit
    /\ configured = TRUE
    /\ ParserIdle
    /\ EpochIdle
    /\ EngineIdle
    /\ PredictIdle
    /\ batch \in ModelBatches
    /\ task = [i \in 1..Len(batch) |-> "pending"]
    /\ risk = [i \in 1..Len(batch) |-> <<>>]
    /\ \/ /\ Len(batch) > 1
          /\ pass_pc = "gather"
          /\ failing \in { MissingTle(batch) \cup raising :
                             raising \in {{}} \cup { {i} : i \in 1..Len(batch) } }
       \/ /\ pass_pc = "skipped"
          /\ failing = {}
    /\ semaphore = MaxConcurrent
    /\ finished = 0
    /\ high_risk_ids = <<>>

\* async with semaphore: the task of satellite i gets in
acquire(i) ==
    /\ pass_pc = "gather"
    /\ task[i] = "pending"
    /\ CanAcquire(semaphore)
    /\ semaphore' = semaphore - 1
    /\ task' = [task EXCEPT ![i] = "running"]
    /\ UNCHANGED <<batch, failing, risk, finished, pass_pc, high_risk_ids>>
    /\ UNCHANGED nonPassVars

\* the assessment of satellite i is back: satellite.risk = risk, and the
\* semaphore is released
assess_single_satellite(i) ==
    /\ pass_pc = "gather"
    /\ task[i] = "running"
    /\ risk' = [risk EXCEPT ![ResultSlot(i, finished)] =
                    IF i \in failing
                    THEN AssessmentFailed(batch[i])
                    ELSE <<assess_collision_risk(batch[i], batch)>>]
    /\ semaphore' = Release(semaphore)
    /\ task' = [task EXCEPT ![i] = "done"]
    /\ finished' = finished + 1
    /\ UNCHANGED <<batch, failing, pass_pc, high_risk_ids>>
    /\ UNCHANGED nonPassVars

\* asyncio.gather returns: every task is over
gather_returns ==
    /\ pass_pc = "gather"
    /\ \A i \in 1..Len(batch) : task[i] = "done"
    /\ pass_pc' = "returned"
    /\ UNCHANGED <<batch, failing, task, semaphore, risk, finished,
                   high_risk_ids>>
    /\ UNCHANGED nonPassVars

\* high_risk_ids = await collision_service.find_high_risk_satellites(...)
list_high_risk ==
    /\ pass_pc \in {"returned", "skipped"}
    /\ high_risk_ids' = find_high_risk_satellites(batch, risk)
    /\ pass_pc' = IF pass_pc = "skipped" THEN "listed_unrated" ELSE "listed"
    /\ UNCHANGED <<batch, failing, task, semaphore, risk, finished>>
    /\ UNCHANGED nonPassVars

NextPass ==
    \/ \E i \in 1..Len(batch) : acquire(i)
    \/ \E i \in 1..Len(batch) : assess_single_satellite(i)
    \/ gather_returns
    \/ list_high_risk

SpecPass == InitPass /\ [][NextPass]_vars

\* the event loop keeps running: as long as some task or the caller can
\* take a step (a place of the semaphore is free for a waiting task, an
\* assessment is back, gather can return), one of them does
SpecPassFair == SpecPass /\ WF_vars(NextPass)

\* ------------------------------------------------ conjunction prediction

\* predict_conjunction_events is called for a pair and a horizon; the pair's
\* distance is given for every hour from the call on, the horizon's end and
\* beyond
InitPredict ==
    /\ OnlineInit
    /\ configured = TRUE
    /\ ParserIdle
    /\ EpochIdle
    /\ EngineIdle
    /\ PassIdle
    /\ hours_ahead \in 1..MaxHours
    /\ sample_distance \in [0..MaxHours -> SampleDistances]
    /\ current_time \in {0, 1}
    /\ hour = 0
    /\ events = <<>>
    /\ pred_pc = "call"

\* events = []; current_time = datetime.now(timezone.utc)
predict_begin ==
    /\ pred_pc = "call"
    /\ events' = <<>>
    /\ hour' = 0
    /\ pred_pc' = "loop"
    /\ UNCHANGED <<hours_ahead, sample_distance, current_time>>
    /\ UNCHANGED nonPredictVars

\* one turn of `for hour in range(0, hours_ahead, 1)`
predict_sample ==
    /\ pred_pc = "loop"
    /\ hour < hours_ahead
    /\ LET check_time == current_time + hour
           distance == sample_distance[hour]
       IN  events' =
             IF WithinMedium(distance)
             THEN Append(events,
                         [time |-> check_time,
                          distance_km |-> distance[1],
                          risk_level |-> _calculate_risk_level(distance[1])])
             ELSE events
    /\ hour' = hour + 1
    /\ UNCHANGED <<hours_ahead, sample_distance, current_time, pred_pc>>
    /\ UNCHANGED nonPredictVars

\* return events
predict_return ==
    /\ pred_pc = "loop"
    /\ ~(hour < hours_ahead)
    /\ pred_pc' = "returned"
    /\ UNCHANGED <<hours_ahead, sample_distance, current_time, hour, events>>
    /\ UNCHANGED nonPredictVars

NextPredict == predict_begin \/ predict_sample \/ predict_return

SpecPredict == InitPredict /\ [][NextPredict]_vars

\* ------------------------------------------------------- gateway claims

\* the minute window is set and t lies inside it
InMinuteWindow == /\ rate_limit_reset_minute # <<>>
                  /\ now < rate_limit_reset_minute[1]

\* the minute window is set and its reset time has been reached
MinuteWindowOver == /\ rate_limit_reset_minute # <<>>
                    /\ now >= rate_limit_reset_minute[1]

C2_CheckRateLimits ==
    [][\A p \in Calls : query_tle_data(p) =>
          LET dueH == rate_limit_reset_hour = <<>>
                         \/ now >= rate_limit_reset_hour[1]
              dueM == rate_limit_reset_minute = <<>>
                         \/ now >= rate_limit_reset_minute[1]
          IN  /\ dueH => /\ request_count_hour' = 0
                         /\ rate_limit_reset_hour' = <<now + HourLen>>
              /\ ~dueH => /\ request_count_hour' = request_count_hour
                          /\ rate_limit_reset_hour' = rate_limit_reset_hour
              /\ dueM => /\ request_count_minute' = 0
                         /\ rate_limit_reset_minute' = <<now + MinuteLen>>
              /\ ~dueM => /\ request_count_minute' = request_count_minute
                          /\ rate_limit_reset_minute' = rate_limit_reset_minute
              /\ cause'[p] = "RateLimitError"
                   <=> \/ request_count_hour' >= RateLimitPerHour
                       \/ request_count_minute' >= RateLimitPerMinute]_vars

\* C2 witness: a check rolled the minute window (counter zero, reset time one
\* minute ahead) and failed on the hour counter alone
C2_Witness ==
    \E p \in Calls : /\ pc[p] = "done"
                     /\ cause[p] = "RateLimitError"
                     /\ request_count_minute = 0
                     /\ rate_limit_reset_minute = <<now + MinuteLen>>
                     /\ now >= MinuteLen
                     /\ request_count_hour >= RateLimitPerHour

\* C3: under every interleaving of concurrent query_tle_data calls,
\* request_count_minute <= rate_limit_per_minute and
\* request_count_hour <= rate_limit_per_hour.
C3_CountersWithinLimits ==
    /\ request_count_minute <= RateLimitPerMinute
    /\ request_count_hour <= RateLimitPerHour

\* C4: no double login: at most one login POST is in flight at any time.
C4_NoDoubleLogin ==
    Cardinality({p \in Calls : pc[p] = "login"}) <= 1

\* C5: whenever query_tle_data sends the catalog GET the session is valid at
\* that point (cookies stored and now < session_expires), also directly after
\* a login that reported success.
C5_GetOnlyWithValidSession ==
    [][\A p \in Calls : gets'[p] > gets[p] =>
          _is_session_valid(session_cookies', session_expires', now')]_vars

\* the session as a 401 leaves it: no cookies, no expiry
SessionCleared == session_cookies = {} /\ session_expires = <<>>

\* C6: a 401 on the catalog GET makes the call fail and clears the session
\* (no cookies, no expiry), and credentials are configured whenever a GET is
\* answered; while the session is cleared, every call that passes its quota
\* check sends no GET and, with credentials configured, sends the login POST;
\* a GET leaves only from a call whose own login has just been answered.
C6_ReloginAfter401 ==
    [][\A p \in Calls :
          /\ query_tle_data_answer(p, "401")
                => /\ pc'[p] = "done"
                   /\ result'[p] = "None"
                   /\ SessionCleared'
                   /\ configured
          /\ (query_tle_data(p) /\ SessionCleared
                                /\ cause'[p] # "RateLimitError")
                => /\ gets'[p] = 0
                   /\ configured => pc'[p] = "login" /\ posts'[p] = 1
          /\ (SessionCleared /\ gets'[p] > gets[p])
                => /\ pc[p] = "login"
                   /\ posts[p] = 1]_vars

\* C6 witness: after a 401 cleared the session, a later call is waiting for
\* the answer to its login POST
C6_Witness ==
    \E p, q \in Calls : /\ pc[q] = "done"
                        /\ cause[q] = "SessionExpired"
                        /\ SessionCleared
                        /\ request_count_hour = 1
                        /\ pc[p] = "login"

\* C7: a single query_tle_data call sends at most one login POST and at most
\* one catalog GET: a POST leaves only when the call starts, a GET only when
\* it starts or when its login is answered, and once the GET is answered
\* (401, non-200, short body, exception) the call is over.
C7_NoAutomaticRetry ==
    [][\A p \in Calls :
          /\ posts'[p] <= 1
          /\ gets'[p] <= 1
          /\ posts'[p] > posts[p] => pc[p] \in {"idle", "done"}
          /\ gets'[p] > gets[p] => pc[p] \in {"idle", "done", "login"}
          /\ pc[p] = "login" => pc'[p] \in {"login", "get", "done"}
          /\ pc[p] = "get" => pc'[p] \in {"get", "done"}]_vars

\* C7 witness: a call that logged in and then got a 401 has returned, and
\* nothing of it is in flight
C7_Witness ==
    \E p \in Calls : /\ pc[p] = "done"
                     /\ cause[p] = "SessionExpired"
                     /\ posts[p] = 0
                     /\ gets[p] = 0
                     /\ SessionCleared

\* C8: the value a call returns identifies the cause of its failure: two
\* calls that return the same value failed for the same cause.
C8_TypedFailures ==
    \A p, q \in Calls :
        (pc[p] = "done" /\ pc[q] = "done" /\ result[p] = result[q])
            => cause[p] = cause[q]

\* C25: every query_tle_data call whose quota check passes increases both
\* request_count_minute and request_count_hour by exactly one, on every path
\* the call can then take: the step that ends such a call (login failure,
\* network exception, any HTTP status) leaves both counters one above what
\* they were since the quota check, and so does a call that passes the check
\* and ends at once for want of credentials.
C25_PassedCheckCounts ==
    [][\A p \in Calls :
          /\ (pc[p] \in {"login", "get"} /\ pc'[p] = "done")
                => /\ request_count_minute' = request_count_minute + 1
                   /\ request_count_hour' = request_count_hour + 1
          /\ (query_tle_data(p) /\ cause'[p] = "AuthError")
                => LET rl == _check_rate_limits(request_count_hour,
                                                request_count_minute,
                                                rate_limit_reset_hour,
                                                rate_limit_reset_minute, now)
                   IN  /\ request_count_minute' = rl.count_minute + 1
                       /\ request_count_hour' = rl.count_hour + 1]_vars

\* C28: after login() reports success at time t, the session is VALID with
\* expiry t + 30 minutes: at every time in [t, t + 30 min) with no 401 in
\* between, _is_session_valid() holds and query_tle_data sends its GET
\* without logging in again; from t + 30 min on the session is invalid.
C28_SessionAfterLogin ==
    [][\A p \in Calls :
          /\ \A r \in LoginResponses :
                (login(p, r) /\ LoginSucceeds(r))
                  => /\ session_expires' = <<now + SessionTimeout>>
                     /\ \A t \in now..(now + SessionTimeout - 1) :
                           _is_session_valid(session_cookies',
                                             session_expires', t)
                     /\ \A t \in (now + SessionTimeout)..(MaxTime + SessionTimeout) :
                           ~_is_session_valid(session_cookies',
                                              session_expires', t)
          /\ (query_tle_data(p) /\ cause'[p] # "RateLimitError"
                 /\ _is_session_valid(session_cookies, session_expires, now))
                  => /\ pc'[p] = "get"
                     /\ gets'[p] = 1
                     /\ posts'[p] = 0]_vars

\* C29: a VALID session leaves that state only through time reaching
\* session_expires or an HTTP 401 on the catalog GET: a non-200 non-401
\* status, a body of 100 characters or fewer, a network exception, a failed
\* quota check and a failed login attempt all leave session_cookies and
\* session_expires unchanged.
C29_SessionLeavesValid ==
    [][/\ (/\ _is_session_valid(session_cookies, session_expires, now)
           /\ ~_is_session_valid(session_cookies', session_expires', now'))
          => \/ /\ now' >= session_expires[1]
                /\ now < session_expires[1]
                /\ UNCHANGED <<session_cookies, session_expires>>
             \/ \E p \in Calls : query_tle_data_answer(p, "401")
       /\ \A p \in Calls :
             /\ \A r \in {"other", "200_short", "exception"} :
                   query_tle_data_answer(p, r)
                     => UNCHANGED <<session_cookies, session_expires>>
             /\ (query_tle_data(p) /\ cause'[p] = "RateLimitError")
                   => UNCHANGED <<session_cookies, session_expires>>
             /\ \A r \in LoginResponses :
                   (login(p, r) /\ ~LoginSucceeds(r))
                     => UNCHANGED <<session_cookies, session_expires>>]_vars

\* the quota check at this instant finds a counter at its ceiling
QuotaExhausted ==
    LET dueH == rate_limit_reset_hour = <<>> \/ now >= rate_limit_reset_hour[1]
        dueM == rate_limit_reset_minute = <<>>
                   \/ now >= rate_limit_reset_minute[1]
    IN  \/ (~dueH /\ request_count_hour >= RateLimitPerHour)
        \/ (~dueM /\ request_count_minute >= RateLimitPerMinute)

\* C26: no HTTP request is sent upstream, neither a login POST nor a catalog
\* GET, unless a quota check has passed earlier in the same gateway
\* operation, for query_tle_data, login and test_connection alike: a request
\* leaves only while the gateway has a quota window (a check has run), and
\* the operation that sends it is then past a quota check of its own, that
\* is awaiting the login POST or the catalog GET of its query_tle_data.
C26_RequestsAfterQuotaCheck ==
    [][\A p \in Calls :
          (posts'[p] > posts[p] \/ gets'[p] > gets[p])
             => /\ rate_limit_reset_minute' # <<>>
                /\ rate_limit_reset_hour' # <<>>
                /\ pc'[p] \in {"login", "get"}]_vars

\* C27: when the quota check fails, query_tle_data aborts the fetch with a
\* failure result without sending a login POST or a catalog GET, leaves
\* session cookies and expiry unchanged and does not increment either
\* counter (a counter changes only by being rolled to zero); the failure
\* reaches the aggregator as no data: the request ends with None and the
\* cache is left as it was.
C27_QuotaFailureAborts ==
    [][\A p \in Calls : \A lim \in Limits :
          (get_active_satellites(p, lim) /\ QuotaExhausted
              /\ _get_cached_data(_tle_cache, _get_cache_key(lim), now) = <<>>)
            => /\ pc'[p] = "done"
               /\ result'[p] = "None"
               /\ posts'[p] = posts[p]
               /\ gets'[p] = gets[p]
               /\ UNCHANGED <<session_cookies, session_expires, _tle_cache>>
               /\ request_count_minute' \in {0, request_count_minute}
               /\ request_count_hour' \in {0, request_count_hour}
               /\ req_pc'[p] = "done"
               /\ response'[p] = None]_vars

\* C27 witness: a request was refused by the quota check and ended with
\* None, while the session is valid and the counter is still at its ceiling
C27_Witness ==
    \E p \in Calls :
        /\ req_pc[p] = "done"
        /\ response[p] = None
        /\ cause[p] = "RateLimitError"
        /\ pc[p] = "done"
        /\ request_count_minute = RateLimitPerMinute
        /\ _is_session_valid(session_cookies, session_expires, now)

\* C23: get_active_satellites never returns a success response with zero
\* satellites: whenever the cache, gateway, parser or per-satellite
\* processing leaves no data, the result is absent (None), so unavailability
\* is never presented as an empty success.
C23_NoEmptySuccess ==
    \A p \in Calls :
        response[p].status = "response" =>
            /\ response[p].satellites # <<>>
            /\ response[p].total_count > 0

\* --------------------------------------------------------- cache claims

\* the cache holds an entry for key k that is younger than the TTL
Fresh(k) ==
    /\ _tle_cache[k] # <<>>
    /\ now - _tle_cache[k][1].timestamp < CacheDuration

\* C13: a cache lookup for a key returns the stored batch if and only if an
\* entry exists for that key and now - fetched_at < TTL (strict): the request
\* is then served the stored batch, and otherwise (no entry, or an age of
\* exactly the TTL or more) the lookup is a miss and the request goes to
\* _fetch_tle_data.
C13_CacheLookup ==
    [][\A p \in Calls : \A lim \in Limits :
          get_active_satellites(p, lim) =>
              LET k == _get_cache_key(lim)
              IN  /\ Fresh(k) => /\ req_pc'[p] = "weather"
                                 /\ req_satellites'[p] = _tle_cache[k][1].data
                  /\ ~Fresh(k) => /\ req_pc'[p] \in {"fetch", "done"}
                                  /\ req_satellites'[p] = <<>>
                                  /\ \/ cause'[p] # "-"
                                     \/ posts'[p] + gets'[p] = 1]_vars

\* C13 witness: a request made when the entry of its key was exactly
\* CacheDuration old (its quota check has just rolled the minute window) is
\* fetching from the gateway
C13_Witness ==
    \E p \in Calls :
        /\ req_pc[p] = "fetch"
        /\ _tle_cache[_get_cache_key(req_limit[p])] # <<>>
        /\ _tle_cache[_get_cache_key(req_limit[p])][1].timestamp = 0
        /\ now = CacheDuration
        /\ rate_limit_reset_minute = <<now + MinuteLen>>
        /\ \A q \in Calls \ {p} : req_pc[q] = "done"

\* what a lookup of key k returns now
Lookup(k) == _get_cached_data(_tle_cache, k, now)

\* this step stores a batch under key k (the only step from "fetch" to
\* "weather" is the one that caches what it fetched)
StoreStep(k) ==
    \E p \in Calls : /\ req_pc[p] = "fetch"
                     /\ req_pc'[p] = "weather"
                     /\ _get_cache_key(req_limit[p]) = k

\* C14: cache idempotence: over every step of any request that is not a
\* store for the key (a tick, a lookup, a gateway step, a store for another
\* key, a response with its risk pass), a lookup that hits after the step
\* returns exactly what a lookup before the step returned; so two lookups
\* inside the TTL window with no store for the key in between return
\* identical record sequences.
C14_CacheIdempotence ==
    [][\A k \in Keys :
          (~StoreStep(k) /\ Lookup(k)' # <<>>) => Lookup(k)' = Lookup(k)]_vars

\* C14 witness: two requests for one limit have been answered with the same
\* records, the second from the cache (it never called the gateway), after
\* the first had run its risk pass
C14_Witness ==
    \E p, q \in Calls :
        /\ p # q
        /\ req_pc[p] = "done" /\ req_pc[q] = "done"
        /\ req_limit[p] = req_limit[q]
        /\ response[p].status = "response"
        /\ response[q] = response[p]
        /\ pc[p] = "done"
        /\ pc[q] = "idle"

\* C15: a get_active_satellites call that finds a fresh cache entry for its
\* limit does not call the gateway: the step leaves the session, both request
\* counters, both reset times and every gateway call as they are (no login
\* POST, no catalog GET) and the call goes on with the cached batch; a login
\* POST or catalog GET leaves only for a request whose lookup missed.
C15_HitSkipsGateway ==
    [][\A p \in Calls :
          /\ \A lim \in Limits :
                (get_active_satellites(p, lim) /\ Fresh(_get_cache_key(lim)))
                    => /\ UNCHANGED <<gwVars, callVars>>
                       /\ req_pc'[p] = "weather"
          /\ (posts'[p] > posts[p] \/ gets'[p] > gets[p])
                => \/ req_pc[p] = "fetch"
                   \/ /\ req_pc[p] = "idle"
                      /\ ~Fresh(_get_cache_key(req_limit'[p]))
          /\ req_pc[p] = "weather"
                => /\ pc'[p] = pc[p]
                   /\ (req_pc'[p] # req_pc[p] => UNCHANGED <<gwVars, callVars>>)]_vars

\* C15 witness: one catalog GET has been answered and cached, and a request
\* that came after it holds the cached batch without having called the
\* gateway
C15_Witness ==
    \E q \in Calls :
        /\ req_pc[q] = "weather"
        /\ pc[q] = "idle"
        /\ req_satellites[q] # <<>>
        /\ request_count_hour = 1
        /\ Fresh(_get_cache_key(req_limit[q]))

\* C31: storing a batch under a cache key replaces the whole entry of that
\* key in one step with the new records stamped with the current time, and
\* leaves the entry of every other key unchanged; there is one slot per
\* distinct limit (different limits have different keys, an entry never
\* holds more records than the limit of its key) and a lookup that hits is
\* served from the entry of its own limit.  Nothing but a store changes the
\* cache.
C31_StoreReplacesEntry ==
    [][/\ \A k \in Keys :
            _tle_cache'[k] # _tle_cache[k] => StoreStep(k)
       /\ \A k \in Keys :
            StoreStep(k) =>
               \E p \in Calls :
                  /\ req_pc[p] = "fetch" /\ req_pc'[p] = "weather"
                  /\ k = _get_cache_key(req_limit[p])
                  /\ _tle_cache'[k] = <<[data |-> req_satellites'[p],
                                         timestamp |-> now]>>
                  /\ \A j \in Keys \ {k} : _tle_cache'[j] = _tle_cache[j]
       /\ \A a, b \in Limits :
            /\ a # b => _get_cache_key(a) # _get_cache_key(b)
            /\ _tle_cache'[_get_cache_key(a)] # <<>>
                  => Len(_tle_cache'[_get_cache_key(a)][1].data) <= a
       /\ \A p \in Calls :
            (req_pc[p] = "idle" /\ req_pc'[p] = "weather")
               => req_satellites'[p] =
                     _tle_cache[_get_cache_key(req_limit'[p])][1].data]_vars

\* C31 witness: a batch has just been stored under one key, stamped with the
\* time of the store, while the other key still holds what was stored under
\* it at time 0
C31_Witness ==
    \E a, b \in Limits :
        /\ a # b
        /\ _tle_cache[_get_cache_key(a)]
              = <<[data |-> Catalog(1, a), timestamp |-> 0]>>
        /\ _tle_cache[_get_cache_key(b)] # <<>>
        /\ _tle_cache[_get_cache_key(b)][1].timestamp = now
        /\ now > 0
        /\ \E p \in Calls : req_pc[p] = "weather" /\ req_limit[p] = b

\* C37: the cache never holds an empty batch and a failed fetch stores
\* nothing: a request that ends without data (credentials, quota, login, a
\* failed or empty catalog answer, an empty parse) leaves every cache entry
\* as it was, an expired entry included, and returns no result; an entry
\* that is not fresh is never served, and a request that finds one calls the
\* gateway again or fails at the gateway's checks.
C37_FailedFetchStoresNothing ==
    [][/\ \A k \in Keys :
            _tle_cache'[k] # <<>> => _tle_cache'[k][1].data # <<>>
       /\ \A p \in Calls :
            (req_pc[p] # "done" /\ req_pc'[p] = "done"
                /\ req_pc[p] \in {"idle", "fetch"})
               => /\ _tle_cache' = _tle_cache
                  /\ response'[p] = None
       /\ \A p \in Calls :
            (req_pc[p] = "idle" /\ req_pc'[p] # "idle"
                /\ ~Fresh(_get_cache_key(req_limit'[p])))
               => /\ req_pc'[p] \in {"fetch", "done"}
                  /\ req_satellites'[p] = <<>>
                  /\ \/ posts'[p] + gets'[p] = 1
                     \/ cause'[p] \in {"AuthError", "RateLimitError"}]_vars

\* C37 witness: a refresh of an expired entry has failed: the request that
\* found the entry of its key expired went to the gateway, got no data and
\* returned nothing, and the entry stored at time 0 is still there, too old
\* to be served
C37_Witness ==
    \E p \in Calls :
        /\ req_pc[p] = "done"
        /\ response[p] = None
        /\ gets[p] = 0 /\ pc[p] = "done" /\ result[p] = "None"
        /\ cause[p] \notin {"AuthError", "RateLimitError"}
        /\ _tle_cache[_get_cache_key(req_limit[p])] # <<>>
        /\ _tle_cache[_get_cache_key(req_limit[p])][1].timestamp = 0
        /\ ~Fresh(_get_cache_key(req_limit[p]))

\* C39: every success response of get_active_satellites has total_count =
\* number of returned satellites <= requested limit, on a cache hit as on a
\* fresh fetch, and every id in high_risk_satellites is the NORAD id of a
\* returned satellite; when the risk pass is disabled or fewer than two
\* satellites are returned, no satellite carries an assessment and
\* high_risk_satellites is empty.
C39_ResponseConsistent ==
    [][\A p \in Calls :
          response'[p].status = "response" =>
             LET r == response'[p]
             IN  /\ r.total_count = Len(r.satellites)
                 /\ r.total_count <= req_limit'[p]
                 /\ \A k \in 1..Len(r.high_risk_satellites) :
                       \E i \in 1..Len(r.satellites) :
                          r.satellites[i].norad_id = r.high_risk_satellites[k]
                 /\ (\/ Len(r.satellites) < 2
                     \/ \E raising \in SUBSET Limits :
                           respond(p, raising, FALSE))
                       => /\ \A i \in 1..Len(r.satellites) :
                                r.satellites[i].risk = <<>>
                          /\ r.high_risk_satellites = <<>>]_vars

\* C39 witness: a request for two satellites was served from the cache (it
\* never called the gateway) and both satellites, 3 km apart, are listed as
\* high-risk, while the request that had fetched them was answered with one
\* satellite, unrated, and an empty high-risk list
C39_Witness ==
    \E p, q \in Calls :
        /\ response[p].status = "response"
        /\ pc[p] = "idle"
        /\ req_limit[p] = 2
        /\ response[p].total_count = 2
        /\ response[p].high_risk_satellites = <<11, 12>>
        /\ response[q].status = "response"
        /\ pc[q] = "done"
        /\ req_limit[q] = 2
        /\ response[q].total_count = 1
        /\ response[q].satellites[1].risk = <<>>
        /\ response[q].high_risk_satellites = <<>>

\* -------------------------------------------------------- parser claims

\* s starts with the two characters a and b
StartsWith2(s, a, b) == Len(s) >= 2 /\ s[1] = a /\ s[2] = b

\* C9: for every line pair the parser examines whose NORAD field is numeric,
\* the pair yields a record (of these two lines) if and only if line1 starts
\* with "1 " and line2 starts with "2 "; a pair failing either prefix test
\* yields no record.
C9_AcceptIffPrefixes ==
    [][parse_pair =>
          LET line1 == strip(lines[idx + 1])
              line2 == strip(lines[idx + 2])
              prefixes == /\ StartsWith2(line1, "1", " ")
                          /\ StartsWith2(line2, "2", " ")
              yields == /\ Len(satellites') = Len(satellites) + 1
                        /\ SubSeq(satellites', 1, Len(satellites)) = satellites
                        /\ satellites'[Len(satellites')].line1 = line1
                        /\ satellites'[Len(satellites')].line2 = line2
          IN  /\ IntParses(Slice(line1, 2, 7)) => (yields <=> prefixes)
              /\ ~prefixes => satellites' = satellites]_vars

\* C9 witness: the parser has examined two pairs with a numeric NORAD field;
\* the first has a good line1 and a bad line2 and gave no record, the second
\* gave the one record there is
C9_Witness ==
    /\ ppc = "loop"
    /\ idx = 4
    /\ IntParses(Slice(strip(lines[1]), 2, 7))
    /\ StartsWith2(strip(lines[1]), "1", " ")
    /\ ~StartsWith2(strip(lines[2]), "2", " ")
    /\ Len(satellites) = 1
    /\ satellites[1].line1 = strip(lines[3])
    /\ satellites[1].line2 = strip(lines[4])

\* the records of all pairs (ls[k], ls[k+1]), (ls[k+2], ls[k+3]), ... that
\* are accepted, in source order
RECURSIVE AcceptedFrom(_, _)
AcceptedFrom(ls, k) ==
    IF k + 1 > Len(ls) THEN <<>>
    ELSE ParsePair(strip(ls[k]), strip(ls[k + 1])) \o AcceptedFrom(ls, k + 2)

AcceptedPairs == AcceptedFrom(split(strip(tle_text)), 1)

\* C10: _parse_tle_data(text, limit) returns exactly the first min(limit, k)
\* accepted pairs of the input in source order, k the number of accepted
\* pairs: never more than limit, rejected pairs not counted, order kept.
C10_FirstLimitAccepted ==
    ppc = "returned" =>
        /\ satellites = SubSeq(AcceptedPairs, 1, Min(limit, Len(AcceptedPairs)))
        /\ Len(satellites) <= limit

\* C10 witness: the parser returned exactly limit >= 2 records, different
\* ones, although more pairs were acceptable and a rejected pair came before
\* the last record returned
C10_Witness ==
    /\ ppc = "returned"
    /\ limit >= 2
    /\ Len(satellites) = limit
    /\ Len(AcceptedPairs) > limit
    /\ idx > 2 * Len(satellites)
    /\ satellites[1] # satellites[2]

\* a pair of non-blank lines that the parser must reject
MalformedPair(line1, line2) ==
    /\ line1 # <<>>
    /\ line2 # <<>>
    /\ \/ ~StartsWith2(line1, "1", " ")
       \/ ~StartsWith2(line2, "2", " ")
       \/ ~IntParses(Slice(line1, 2, 7))

\* ls without its elements k and k + 1
DropPair(ls, k) == SubSeq(ls, 1, k - 1) \o SubSeq(ls, k + 2, Len(ls))

\* four pairs, the third with a malformed line 2
Batch4 == join(<<Str15, Str25, Str17, Str25, Str15, Str35, Str17, Str25>>)

\* the lines the loop has examined so far
Examined == SubSeq(lines, 1, Min(idx, Len(lines)))

\* the lines of ls that are not empty, in order
RECURSIVE NonEmptyLines(_)
NonEmptyLines(ls) ==
    IF ls = <<>> THEN <<>>
    ELSE IF Head(ls) = <<>> THEN NonEmptyLines(Tail(ls))
    ELSE <<Head(ls)>> \o NonEmptyLines(Tail(ls))

PairsOfNonEmptyLines ==
    AcceptedFrom(NonEmptyLines(split(strip(tle_text))), 1)

\* C30: the parser forms its records from consecutive pairs of the non-empty
\* lines of the input: what it returns is the first limit accepted pairs of
\* the text with its empty lines taken out, so blank lines between or inside
\* records change nothing.
C30_BlankLinesDiscarded ==
    ppc = "returned" =>
        satellites = SubSeq(PairsOfNonEmptyLines, 1,
                            Min(limit, Len(PairsOfNonEmptyLines)))

\* C11: a malformed pair (wrong line1/line2 prefix or non-numeric NORAD id)
\* is dropped and does not affect the pairs after it: at every point of the
\* loop and at the return, the records are those that the examined lines
\* give with any one malformed pair taken out of them; the 4-pair batch
\* whose third pair has a malformed line2 gives the 3 other records; and on
\* every input the call goes on until it returns its list: the body of the
\* loop gives no record or one record on the pair it is about to examine, the
\* index only moves in whole pairs and stays within one pair of the end.
C11_MalformedDropped ==
    /\ ppc \in {"loop", "returned"} =>
          \A k \in 1..Len(Examined) :
              (k % 2 = 1 /\ k + 1 <= Len(Examined)
                 /\ MalformedPair(strip(Examined[k]), strip(Examined[k + 1])))
                => satellites = AcceptedFrom(DropPair(Examined, k), 1)
    /\ (ppc = "returned" /\ tle_text = Batch4 /\ limit >= 3) =>
          satellites =
              <<[norad_id |-> 5, line1 |-> Str15, line2 |-> Str25],
                [norad_id |-> 7, line1 |-> SubSeq(Str17, 2, 4), line2 |-> Str25],
                [norad_id |-> 7, line1 |-> SubSeq(Str17, 2, 4), line2 |-> Str25]>>
    /\ (ppc = "loop" /\ idx + 2 <= Len(lines)) =>
          Len(ParsePair(strip(lines[idx + 1]), strip(lines[idx + 2]))) <= 1
    /\ ppc = "loop" => /\ idx % 2 = 0
                       /\ idx <= Len(lines) + 1
                       /\ Len(satellites) * 2 <= idx

\* C11 witness: the 4-pair batch with the malformed third pair has been
\* parsed to its end and 3 records came back
C11_Witness ==
    /\ ppc = "returned"
    /\ tle_text = Batch4
    /\ idx = 8
    /\ Len(satellites) = 3
    /\ MalformedPair(strip(lines[5]), strip(lines[6]))

\* ---------------------------------------------------------- epoch claims

\* leap years up to and including year n
LeapsUpTo(n) == (n \div 4) - (n \div 100) + (n \div 400)

\* days from 1900-01-01 to the first of month m of year y
DaysBefore(y, m) ==
    (y - 1900) * 365 + (LeapsUpTo(y - 1) - LeapsUpTo(1899))
      + <<0, 31, 59, 90, 120, 151, 181, 212, 243, 273, 304, 334>>[m]
      + (IF m > 2 /\ IsLeap(y) THEN 1 ELSE 0)

\* tenths of a day from 1900-01-01T00:00 to the datetime dt
TenthsSince(dt) ==
    10 * (DaysBefore(dt.year, dt.month) + dt.day - 1)
      + (dt.hour * 60 + dt.minute) \div 144

\* dt is a date of the calendar at a whole number of tenths of a day
IsDateTime(dt) ==
    /\ dt.month \in 1..12
    /\ dt.day \in 1..DaysInMonth(dt.year, dt.month)
    /\ dt.hour \in 0..23
    /\ dt.minute \in 0..59
    /\ (dt.hour * 60 + dt.minute) % 144 = 0

\* C12: _parse_tle_epoch maps a two-digit year yy < 57 to 2000 + yy and
\* yy >= 57 to 1900 + yy, and a 1-based fractional day-of-year d to January 1
\* 00:00 UTC of that year plus (d - 1) days; the field for year 24 and day
\* 179.5 decodes to 2024-06-27T12:00:00Z.
C12_EpochDecoding ==
    (epc = "returned" /\ encoded # <<>>) =>
        LET e == encoded[1]
            y == IF e.yy < 57 THEN 2000 + e.yy ELSE 1900 + e.yy
            jan1 == [year |-> y, month |-> 1, day |-> 1, hour |-> 0, minute |-> 0]
            r == epoch[1]
        IN  /\ r # UtcNow
            /\ IsDateTime(r)
            /\ TenthsSince(r) = TenthsSince(jan1) + (10 * e.day + e.tenth) - 10
            /\ e = [yy |-> 24, day |-> 179, tenth |-> 5]
                  => r = [year |-> 2024, month |-> 6, day |-> 27,
                          hour |-> 12, minute |-> 0]

\* C12 witness: the field for year 24, day 179.5 has been decoded to noon of
\* June 27, 2024
C12_Witness ==
    /\ epc = "returned"
    /\ epoch_str = <<"2", "4", "1", "7", "9", ".", "5">>
    /\ epoch = <<[year |-> 2024, month |-> 6, day |-> 27,
                  hour |-> 12, minute |-> 0]>>

\* ---------------------------------------------------- risk engine claims

\* C16: the risk level is a function of the closest-approach distance d with
\* inclusive upper bounds: d <= 5 km gives CRITICAL, 5 < d <= 25 HIGH,
\* 25 < d <= 100 MEDIUM and 100 < d <= 500 LOW; 5.0 is CRITICAL, 5.0001 is
\* HIGH, 25.0 is HIGH and 25.0001 is MEDIUM.
C16_RiskLevelBoundaries ==
    risk_level # <<>> =>
        LET d == closest_distance
            level == risk_level[1]
        IN  /\ d <= 50000 => level = "CRITICAL"
            /\ (50000 < d /\ d <= 250000) => level = "HIGH"
            /\ (250000 < d /\ d <= 1000000) => level = "MEDIUM"
            /\ (1000000 < d /\ d <= 5000000) => level = "LOW"
            /\ d = 50000 => level = "CRITICAL"
            /\ d = 50001 => level = "HIGH"
            /\ d = 250000 => level = "HIGH"
            /\ d = 250001 => level = "MEDIUM"

\* C16 witness: a closest approach of 5.0001 km has been rated HIGH
C16_Witness ==
    /\ closest_distance = 50001
    /\ risk_level = <<"HIGH">>

\* C17: probability clamp: for every closest distance (no neighbour at all
\* included), every nearby_count >= 0 and every object type the collision
\* probability returned lies within [0, 100].
C17_ProbabilityClamp ==
    collision_probability # <<>> =>
        /\ collision_probability[1] >= 0
        /\ collision_probability[1] <= 1000000

\* C17 witness: the cap has cut a product above 100 percent down to 100 (a
\* piece of debris within 5 km of its neighbour, 17 objects nearby)
C17_Witness ==
    /\ collision_probability = <<1000000>>
    /\ closest_distance <= 50000
    /\ nearby_count = 17
    /\ object_type = "DEBRIS"
    /\ 2500 * (10 + nearby_count) * 15 > 1000000

\* C34: the collision probability equals
\* min(100, base(d) * (1 + 0.1 * nearby_count) * type_multiplier), where
\* base(d) is 25 for d <= 5, 10 for d <= 25, 2 for d <= 100, 0.1 for d <= 500
\* and 0.01 otherwise, and type_multiplier is 1.5 for DEBRIS, 1.2 for
\* ROCKET_BODY and 1.0 for every other type (in 0.0001 percent: base in
\* hundredths of a percent, both factors in tenths).
C34_ProbabilityFormula ==
    collision_probability # <<>> =>
        LET d == closest_distance
            base == IF d <= 5 * 10000 THEN 25 * 100
                    ELSE IF d <= 25 * 10000 THEN 10 * 100
                    ELSE IF d <= 100 * 10000 THEN 2 * 100
                    ELSE IF d <= 500 * 10000 THEN 10
                    ELSE 1
            density == 10 + nearby_count
            type_multiplier == CASE object_type = "DEBRIS" -> 15
                                 [] object_type = "ROCKET_BODY" -> 12
                                 [] OTHER -> 10
            product == base * density * type_multiplier
        IN  collision_probability[1] =
                IF product > 100 * 10000 THEN 100 * 10000 ELSE product

\* C34 witness: a rocket body with 3 objects nearby, the closest between 100
\* and 500 km away, has the probability 0.1 * 1.3 * 1.2 = 0.156 percent
C34_Witness ==
    /\ object_type = "ROCKET_BODY"
    /\ nearby_count = 3
    /\ closest_distance > 100 * 10000
    /\ closest_distance <= 500 * 10000
    /\ collision_probability = <<1560>>

\* ------------------------------------------------------ risk pass claims

\* the assessments in flight: inside the semaphore-guarded section
InFlight == {i \in 1..Len(batch) : task[i] = "running"}

\* C18: during a batch risk pass at no time are more than 5 per-satellite
\* assessments in flight, for any batch size; the semaphore counts the free
\* places exactly.
C18_ConcurrencyCeiling ==
    /\ Cardinality(InFlight) <= 5
    /\ semaphore = 5 - Cardinality(InFlight)

\* C18 witness: 5 assessments are in flight and a sixth task is waiting
C18_Witness ==
    /\ Cardinality(InFlight) = 5
    /\ \E i \in 1..Len(batch) : task[i] = "pending"

\* C19: failure isolation: once gather is over, a satellite whose assessment
\* failed has no risk, every other satellite of the batch has its own
\* assessment, every task is over and every place of the semaphore is free
\* again: the pass ends normally.
C19_FailureIsolation ==
    pass_pc \in {"returned", "listed"} =>
        /\ \A i \in 1..Len(batch) :
              /\ i \in failing => risk[i] = <<>>
              /\ i \notin failing =>
                    /\ risk[i] # <<>>
                    /\ risk[i] = <<assess_collision_risk(batch[i], batch)>>
              /\ task[i] = "done"
        /\ semaphore = 5

\* C19 witness: the pass over a batch of 3 or more is over, the assessment of
\* one satellite failed and the others are rated
C19_Witness ==
    /\ pass_pc = "listed"
    /\ Len(batch) >= 3
    /\ \E i \in 1..Len(batch) :
          /\ failing = {i}
          /\ risk[i] = <<>>
          /\ \A j \in 1..Len(batch) : j # i => risk[j] # <<>>

\* what the pass has to leave for the i-th satellite
OwnAssessment(i) ==
    IF i \in failing THEN <<>>
    ELSE <<assess_collision_risk(batch[i], batch)>>

\* C20: the outcome of a batch risk pass does not depend on the order in
\* which the tasks complete: under every schedule each satellite whose task
\* is over has the assessment computed for its own NORAD id and the others
\* have none yet, the list keeps its order, and the high-risk id list is the
\* one of these assessments taken in list order.
C20_OrderIndependence ==
    /\ \A i \in 1..Len(batch) :
          /\ task[i] = "done" => risk[i] = OwnAssessment(i)
          /\ task[i] # "done" => risk[i] = <<>>
    /\ \A i \in 1..Len(batch) : batch[i].norad_id = SatelliteAt(i).norad_id
    /\ pass_pc = "listed" =>
          high_risk_ids =
              find_high_risk_satellites(batch,
                                        [i \in 1..Len(batch) |-> OwnAssessment(i)])

\* C20 witness: the task of the last satellite of the batch is over and has
\* left a HIGH or CRITICAL rating there, while the task of the first one,
\* which is rated differently, is still running
C20_Witness ==
    /\ pass_pc = "gather"
    /\ Len(batch) >= 2
    /\ task[1] = "running"
    /\ task[Len(batch)] = "done"
    /\ risk[Len(batch)] # <<>>
    /\ risk[Len(batch)] # <<assess_collision_risk(batch[1], batch)>>

\* ------------------------------------------- conjunction prediction claims

\* the events of the samples at offsets h, h + 1, ..., hours_ahead - 1 whose
\* distance is at most the MEDIUM threshold
RECURSIVE EventsDue(_)
EventsDue(h) ==
    IF h >= hours_ahead THEN <<>>
    ELSE (IF sample_distance[h] # <<>>
             /\ sample_distance[h][1] <= ThresholdMedium
          THEN <<[time |-> current_time + h,
                  distance_km |-> sample_distance[h][1],
                  risk_level |-> _calculate_risk_level(sample_distance[h][1])]>>
          ELSE <<>>)
         \o EventsDue(h + 1)

\* C21: predict_conjunction_events with horizon H samples the pair distance
\* at exactly the offsets 0, 1, ..., H-1 hours from the start time and emits
\* an event for a sampled time if and only if the distance at that sample is
\* <= 100 km, each event carrying that sample's time, distance_km and
\* risk_level.
C21_EventIffWithinMedium ==
    pred_pc = "returned" => events = EventsDue(0)

\* ------------------------------------------------------ high-risk tagging

\* where in the list the satellite with this id is
PositionOf(id) == CHOOSE i \in 1..Len(batch) : batch[i].norad_id = id

\* C22: the high_risk_satellites list of a response is exactly the NORAD ids
\* of the returned satellites whose risk level is HIGH or CRITICAL, each once
\* and in list order; satellites with LOW or MEDIUM level or with an absent
\* assessment are never tagged.
C22_HighRiskTagging ==
    pass_pc \in {"listed", "listed_unrated"} =>
        /\ \A i \in 1..Len(batch) :
              (\E k \in 1..Len(high_risk_ids) :
                    high_risk_ids[k] = batch[i].norad_id)
                 <=> /\ risk[i] # <<>>
                     /\ risk[i][1].collision_risk_level \in {"HIGH", "CRITICAL"}
        /\ \A k \in 1..Len(high_risk_ids) :
              \E i \in 1..Len(batch) : high_risk_ids[k] = batch[i].norad_id
        /\ \A k, l \in 1..Len(high_risk_ids) :
              k < l => PositionOf(high_risk_ids[k]) < PositionOf(high_risk_ids[l])

\* C22 witness: a response whose satellites are rated CRITICAL, HIGH, MEDIUM
\* and LOW and one is unrated; two or more are tagged and two or more rated
\* ones are not
C22_Witness ==
    /\ pass_pc = "listed"
    /\ Len(high_risk_ids) >= 2
    /\ \E i \in 1..Len(batch) : risk[i] = <<>>
    /\ \A lv \in {"CRITICAL", "HIGH", "MEDIUM", "LOW"} :
          \E i \in 1..Len(batch) :
              risk[i] # <<>> /\ risk[i][1].collision_risk_level = lv

\* --------------------------------------------------- close approach claims

\* the distance of the i-th and the j-th satellite of the batch
Apart(i, j) ==
    IF batch[i].position >= batch[j].position
    THEN batch[i].position - batch[j].position
    ELSE batch[j].position - batch[i].position

\* three records: a and b are 3 km apart, c is more than 500 km from both
CloseApproach(a, b, c) ==
    /\ Len(batch) = 3
    /\ {a, b, c} = {1, 2, 3}
    /\ Apart(a, b) = 3 * 10000
    /\ Apart(a, c) > 500 * 10000
    /\ Apart(b, c) > 500 * 10000

Computed(i) ==
    {j \in 1..Len(batch) : /\ batch[j].norad_id # batch[i].norad_id
                           /\ batch[j].has_tle
                           /\ batch[i].propagates /\ batch[j].propagates}

\* those of them that are within 500 km
Within500(i) == {j \in Computed(i) : Apart(i, j) <= 500 * 10000}

\* C32: a satellite whose closest neighbour is more than 500 km away gets no
\* rating: its closest_km is absent and its level is not LOW; the same when
\* no neighbour distance could be computed at all.
C32_NoRatingBeyondLow ==
    \A i \in 1..Len(batch) :
        (risk[i] # <<>> /\ Within500(i) = {}) =>
            /\ risk[i][1].closest_approach_km = <<>>
            /\ risk[i][1].collision_risk_level # "LOW"

C35_DebrisScore ==
    \A i \in 1..Len(batch) :
        risk[i] # <<>> =>
            LET altitude == batch[i].altitude
                band == IF altitude # <<>> /\ 400 <= altitude[1]
                                          /\ altitude[1] <= 600 THEN 30
                        ELSE IF altitude # <<>> /\ 700 <= altitude[1]
                                               /\ altitude[1] <= 900 THEN 20
                        ELSE IF altitude # <<>> /\ altitude[1] >= 35000 THEN 25
                        ELSE 10
                debris_count ==
                    Cardinality({j \in Within500(i) :
                                    batch[j].object_type = "DEBRIS"})
                rocket_body_count ==
                    Cardinality({j \in Within500(i) :
                                    batch[j].object_type = "ROCKET_BODY"})
                total_nearby == Cardinality(Within500(i))
                count_within_50km ==
                    Cardinality({j \in Within500(i) :
                                    Apart(i, j) <= 50 * 10000})
                sum == band + 3 * debris_count + 2 * rocket_body_count
                         + total_nearby + 5 * count_within_50km
            IN  risk[i][1].debris_environment_score
                   = IF sum > 100 THEN 100 ELSE sum

C36_PassTerminates ==
    <>(/\ pass_pc \in {"listed", "listed_unrated"}
       /\ InFlight = {}
       /\ semaphore = MaxConcurrent
       /\ pass_pc = "listed" => \A i \in 1..Len(batch) : task[i] = "done")

\* C36 witness: the pass over a batch larger than the ceiling, in which one
\* assessment failed, has returned with every task over and every place free
C36_Witness ==
    /\ pass_pc = "listed"
    /\ Len(batch) > MaxConcurrent
    /\ failing # {}
    /\ \A i \in 1..Len(batch) : task[i] = "done"
    /\ semaphore = MaxConcurrent

====
